---- MODULE Spec2Model ----
(***************************************************************************)
(* Monocle: SQL Server schema introspection.                               *)
(*   - db/schema_loader.rs : load_schema_from_connection and its loaders   *)
(*   - db/queries.rs       : the catalog queries                           *)
(*   - db/ssrp.rs          : SQL Server Browser lookup                     *)
(*   - db/connection.rs    : server-string parsing and client creation     *)
(* Strings are sequences of one-character strings, so that format!,        *)
(* to_lowercase, split_once and trim are computed character by character.  *)
(***************************************************************************)
EXTENDS Integers, Sequences, FiniteSets, TLC

VARIABLES
    \* ---- schema load (db/schema_loader.rs) ----
    catalog,            \* the database's system catalog the queries run against
    pc,                 \* position inside load_schema_from_connection
    tables,             \* local `tables`
    views,              \* local `views`
    name_to_id,         \* local `name_to_id`
    relationships,      \* local `relationships`
    triggers,           \* local `triggers`
    stored_procedures,  \* local `stored_procedures`
    scalar_functions,   \* local `scalar_functions`
    issued,             \* catalog queries executed on the connection, in order
    failed,             \* the query that failed and where: [query, at]
    result,             \* what load_schema_from_connection returned
    dropped,            \* -1, or the number of queries issued when the caller
                        \* dropped the future of load_schema
    delivered,          \* what the caller of load_schema received
    cursor_log,         \* result sets opened and closed on the connection, in order
    unreadable,         \* the cells for which batch.at() gives None or bytes that
                        \* are not UTF-8: [query, row, col]
    \* ---- endpoint resolution and connection (db/ssrp.rs, db/connection.rs) ----
    entry,              \* the function called: create_client or create_server_client
    database,           \* the database given to config.database()
    server,             \* params.server
    auth_type,          \* params.auth_type
    windows,            \* cfg(windows): the build targets Windows
    net,                \* what the network does for each resolved browser address
    cpc,                \* position inside create_client / resolve_instance_port
    host,               \* host handed to resolve_instance_port
    instance,           \* instance handed to resolve_instance_port
    addr_idx,           \* index of the browser address being tried
    timed_out,          \* local `timed_out`
    invalid_response,   \* local `invalid_response`
    missing_port,       \* local `missing_port`
    last_io_error,      \* local `last_io_error` (is_some)
    attempts,           \* failure kinds observed, one per address tried
    ssrp_result,        \* what resolve_instance_port returned
    parsed,             \* what parse_server_async returned
    tcp_connects,       \* number of TcpStream::connect calls
    client_result,      \* what create_client returned
    \* ---- column type formatting (db/queries.rs) ----
    type_name,          \* argument `type_name` of format_data_type
    max_length,         \* argument `max_length` (i16)
    precision,          \* argument `precision` (u8)
    scale,              \* argument `scale` (u8)
    formatted,          \* what format_data_type returned
    \* ---- mock graph generator (commands/mock.rs) ----
    usize_bits,         \* width of usize on the build target: 32 or 64
    mpc,                \* position inside load_schema_mock
    size,               \* argument `size`
    frame,              \* locals of load_schema_mock: config and the six vectors
    returned,           \* the graphs load_schema_mock has returned, in call order
    \* ---- settings store (state.rs) ----
    settings,           \* AppState.settings: the value inside the Mutex
    file,               \* content of settings.json, <<>> while the file is absent
    lock,               \* the thread that holds the Mutex, 0 when it is free
    tpc,                \* position of each thread inside its call
    call,               \* the call each thread is executing
    started,            \* number of calls started
    last_op,            \* the last mutation made under the lock
    overtaken           \* a call has written settings that another call changed
                        \* after the writer's own mutation

loadVars == <<catalog, pc, tables, views, name_to_id, relationships, triggers,
              stored_procedures, scalar_functions, issued, failed, result,
              dropped, delivered, cursor_log, unreadable>>
connVars == <<entry, database, server, auth_type, windows, net, cpc, host, instance, addr_idx, timed_out,
              invalid_response, missing_port, last_io_error, attempts,
              ssrp_result, parsed, tcp_connects, client_result>>
fmtVars == <<type_name, max_length, precision, scale, formatted>>
mockVars == <<usize_bits, mpc, size, frame, returned>>
storeVars == <<settings, file, lock, tpc, call, started, last_op, overtaken>>
auxVars == <<fmtVars, mockVars, storeVars>>
exceptFmt == <<loadVars, connVars, mockVars, storeVars>>
exceptMock == <<loadVars, connVars, fmtVars, storeVars>>
exceptStore == <<loadVars, connVars, fmtVars, mockVars>>
vars == <<loadVars, connVars, auxVars>>

-----------------------------------------------------------------------------
(* Bounds *)

\* a result set can fail while its k-th row is fetched, k in 1..MaxFailRow
MaxFailRow == 3
\* longest server string
MaxServerLen == 3
\* most addresses a host name resolves to
MaxAddrs == 2
\* unreadable cells over one load
MaxUnreadable == 1
\* largest scale and precision handed to format_data_type besides the u8 extremes
MaxScale == 8
\* invocations of load_schema_mock in one run
MaxCalls == 2
\* entries of a mock columns vector that are kept besides its length
MaxColumns == 2
\* threads that call into one AppState
MaxThreads == 2
\* calls of add_connection, remove_connection and update_settings in one run
MaxOps == 3

-----------------------------------------------------------------------------
(* Strings *)

\* char::to_lowercase on the letters that occur in the modelled names
LowerChar(c) ==
    CASE c = "T" -> "t"
      [] c = "V" -> "v"
      [] c = "M" -> "m"
      [] c = "P" -> "p"
      [] c = "F" -> "f"
      [] c = "Q" -> "q"
      [] c = "C" -> "c"
      [] OTHER -> c

\* str::to_lowercase
to_lowercase(s) == [i \in 1..Len(s) |-> LowerChar(s[i])]

\* format!("{}.{}", a, b)
format_id(a, b) == a \o <<".">> \o b

RECURSIVE Concat(_)
\* concatenation of a sequence of sequences (the rows of a joined query)
Concat(ss) == IF ss = <<>> THEN <<>> ELSE Head(ss) \o Concat(Tail(ss))

\* the set of values of a sequence
Range(s) == {s[i] : i \in 1..Len(s)}

\* HashMap::into_values().collect(): the values in an unspecified order
into_values(m) ==
    LET D == DOMAIN m
        n == Cardinality(D)
    IN  {[i \in 1..n |-> m[p[i]]] :
            p \in {q \in [1..n -> D] : \A i, j \in 1..n : i # j => q[i] # q[j]}}

\* HashSet::into_iter().collect(): the elements in an unspecified order
into_iter(S) ==
    LET n == Cardinality(S)
    IN  {q \in [1..n -> S] : \A i, j \in 1..n : i # j => q[i] # q[j]}

-----------------------------------------------------------------------------
(* SQL text of object definitions, as the token stream the regexes see.     *)
(* kw is the upper-cased word when the word is one of the pattern keywords  *)
(* (the patterns are case-insensitive), "ID" for any other identifier and   *)
(* "PUNCT" for text that \w does not match.  s is the schema part of a      *)
(* qualified identifier (<<>> when there is none), n the \w+ word itself.   *)

Kw(k) == [kw |-> k, s |-> <<>>, n |-> <<k>>]
Id(n) == [kw |-> "ID", s |-> <<>>, n |-> n]
QId(s, n) == [kw |-> "ID", s |-> s, n |-> n]
Punct == [kw |-> "PUNCT", s |-> <<>>, n |-> <<>>]

-----------------------------------------------------------------------------
(* The system catalog (sys.tables, sys.views, sys.foreign_keys, ...)        *)

Col(n, pk) == [name |-> n, is_primary_key |-> pk]

\* sys.tables joined with sys.schemas and sys.columns
SysTables == <<
    [object_id |-> 1, schema |-> <<"r">>, name |-> <<"T">>, is_ms_shipped |-> FALSE,
     columns |-> <<Col(<<"a">>, TRUE)>>],
    [object_id |-> 2, schema |-> <<"s">>, name |-> <<"M">>, is_ms_shipped |-> TRUE,
     columns |-> <<Col(<<"a">>, TRUE)>>],
    [object_id |-> 3, schema |-> <<"s">>, name |-> <<"T">>, is_ms_shipped |-> FALSE,
     columns |-> <<Col(<<"a">>, TRUE), Col(<<"b">>, FALSE)>>],
    [object_id |-> 4, schema |-> <<"s">>, name |-> <<"T", ".", "x">>, is_ms_shipped |-> FALSE,
     columns |-> <<Col(<<"a">>, FALSE)>>],
    [object_id |-> 7, schema |-> <<"s", ".", "T">>, name |-> <<"x">>, is_ms_shipped |-> FALSE,
     columns |-> <<Col(<<"c">>, FALSE)>>] >>

\* sys.views with OBJECT_DEFINITION and the output of sys.dm_sql_referenced_entities
SysViews == <<
    [object_id |-> 5, schema |-> <<"r">>, name |-> <<"t">>, is_ms_shipped |-> FALSE,
     columns |-> <<<<"a">>>>,
     definition |-> <<Kw("FROM"), Id(<<"T">>)>>,
     referenced |-> <<[entity |-> <<"T">>, minor |-> <<"a">>]>>],
    [object_id |-> 6, schema |-> <<"s">>, name |-> <<"V">>, is_ms_shipped |-> FALSE,
     columns |-> <<<<"a">>, <<"b">>>>,
     definition |-> <<Kw("FROM"), QId(<<"s">>, <<"T">>), Kw("JOIN"), Id(<<"Q">>)>>,
     referenced |-> <<[entity |-> <<"T">>, minor |-> <<"a">>],
                      [entity |-> <<"T">>, minor |-> <<"b">>]>>] >>

\* sys.foreign_keys joined with sys.foreign_key_columns
SysForeignKeys == <<
    [name |-> <<"k", "1">>, parent_object_id |-> 3, referenced_object_id |-> 1,
     parent_column |-> <<"b">>, referenced_column |-> <<"a">>],
    [name |-> <<"k", "2">>, parent_object_id |-> 3, referenced_object_id |-> 2,
     parent_column |-> <<"a">>, referenced_column |-> <<"a">>] >>

\* sys.triggers
SysTriggers == <<
    [name |-> <<"x">>, parent_id |-> 3,
     definition |-> <<Kw("UPDATE"), QId(<<"r">>, <<"T">>), Kw("FROM"), QId(<<"s">>, <<"T">>),
                      Punct, Kw("INSERT"), Kw("INTO"), Id(<<"Q">>)>>],
    [name |-> <<"y">>, parent_id |-> 2,
     definition |-> <<>>] >>

\* a row of sys.parameters joined with sys.types
Param(n, ty, out) == [name |-> n, type |-> ty, is_output |-> out]

\* sys.procedures left-joined with sys.parameters
SysProcedures == <<
    [schema |-> <<"r">>, name |-> <<"P">>, is_ms_shipped |-> FALSE,
     parameters |-> <<>>, definition |-> <<>>],
    [schema |-> <<"s">>, name |-> <<"P">>, is_ms_shipped |-> FALSE,
     parameters |-> <<Param(<<"@", "a">>, <<"i">>, FALSE), Param(<<"@", "b">>, <<"i">>, TRUE)>>,
     definition |-> <<Kw("INSERT"), Kw("INTO"), QId(<<"r">>, <<"T">>), Kw("SELECT"), Punct,
                      Kw("FROM"), QId(<<"s">>, <<"T">>), Punct,
                      Kw("DELETE"), Kw("FROM"), QId(<<"s">>, <<"T">>), Kw("WHERE"), Punct,
                      Kw("INSERT"), Kw("INTO"), QId(<<"s">>, <<"Q">>)>>] >>

\* sys.objects of type FN left-joined with sys.parameters
SysFunctions == <<
    [schema |-> <<"s">>, name |-> <<"F">>, is_ms_shipped |-> FALSE,
     parameters |-> <<Param(<<"@", "a">>, <<"i">>, FALSE)>>, return_type |-> <<"i">>,
     definition |-> <<Kw("FROM"), Id(<<"V">>), Kw("JOIN"), QId(<<"q">>, <<"T">>)>>] >>

\* the subsequence of s whose elements satisfy membership in S
Restrict(s, S) == SelectSeq(s, LAMBDA e : e \in S)

\* A database: any choice of tables and views; foreign keys and triggers exist
\* only on tables that exist (the catalog's own referential integrity).
Catalogs ==
    {[tables |-> ts,
      views |-> Restrict(SysViews, VS),
      foreign_keys |-> SelectSeq(SysForeignKeys, LAMBDA f :
            \E a, b \in Range(ts) : a.object_id = f.parent_object_id
                                    /\ b.object_id = f.referenced_object_id),
      triggers |-> SelectSeq(SysTriggers, LAMBDA g :
            \E a \in Range(ts) : a.object_id = g.parent_id),
      procedures |-> SysProcedures,
      functions |-> SysFunctions] :
        ts \in {Restrict(SysTables, TS) : TS \in SUBSET Range(SysTables)},
        VS \in SUBSET Range(SysViews)}

-----------------------------------------------------------------------------
(* db/queries.rs: the catalog queries, as the rows they return              *)

\* the row of sys.tables with the given object_id (JOIN ... ON x = t.object_id)
TablesWithId(cat, oid) == SelectSeq(cat.tables, LAMBDA t : t.object_id = oid)

TABLES_AND_COLUMNS_QUERY(cat) ==
    LET ts == SelectSeq(cat.tables, LAMBDA t : ~t.is_ms_shipped)
        RowsOf(t) == [i \in 1..Len(t.columns) |->
                        [schema_name |-> t.schema, table_name |-> t.name,
                         column_name |-> t.columns[i].name,
                         is_primary_key |-> t.columns[i].is_primary_key]]
    IN  Concat([i \in 1..Len(ts) |-> RowsOf(ts[i])])

FOREIGN_KEYS_QUERY(cat) ==
    LET RowsOf(fk) ==
            LET src == TablesWithId(cat, fk.parent_object_id)
                ref == TablesWithId(cat, fk.referenced_object_id)
            IN  IF src = <<>> \/ ref = <<>> THEN <<>>
                ELSE <<[fk_name |-> fk.name,
                        src_schema |-> src[1].schema, src_table |-> src[1].name,
                        src_column |-> fk.parent_column,
                        ref_schema |-> ref[1].schema, ref_table |-> ref[1].name,
                        ref_column |-> fk.referenced_column]>>
    IN  Concat([i \in 1..Len(cat.foreign_keys) |-> RowsOf(cat.foreign_keys[i])])

\* variant: without WHERE t.is_ms_shipped = 0
TRIGGERS_QUERY_all_tables(cat) ==
    LET RowsOf(tr) ==
            LET t == TablesWithId(cat, tr.parent_id)
            IN  IF t = <<>> THEN <<>>
                ELSE <<[schema_name |-> t[1].schema, table_name |-> t[1].name,
                        trigger_name |-> tr.name,
                        trigger_definition |-> tr.definition]>>
    IN  Concat([i \in 1..Len(cat.triggers) |-> RowsOf(cat.triggers[i])])

TRIGGERS_QUERY(cat) ==
    LET RowsOf(tr) ==
            LET t == SelectSeq(TablesWithId(cat, tr.parent_id),
                               LAMBDA x : ~x.is_ms_shipped)
            IN  IF t = <<>> THEN <<>>
                ELSE <<[schema_name |-> t[1].schema, table_name |-> t[1].name,
                        trigger_name |-> tr.name,
                        trigger_definition |-> tr.definition]>>
    IN  Concat([i \in 1..Len(cat.triggers) |-> RowsOf(cat.triggers[i])])

STORED_PROCEDURES_QUERY(cat) ==
    LET ps == SelectSeq(cat.procedures, LAMBDA p : ~p.is_ms_shipped)
        Row(p, sp) == [schema_name |-> p.schema, procedure_name |-> p.name,
                       parameter_name |-> sp.name, parameter_type |-> sp.type,
                       is_output |-> IF sp.is_output THEN <<"1">> ELSE <<"0">>,
                       procedure_definition |-> p.definition]
        \* LEFT JOIN: a procedure without parameters gives one row of ISNULL defaults
        RowsOf(p) == IF p.parameters = <<>> THEN <<Row(p, Param(<<>>, <<>>, FALSE))>>
                     ELSE [i \in 1..Len(p.parameters) |-> Row(p, p.parameters[i])]
    IN  Concat([i \in 1..Len(ps) |-> RowsOf(ps[i])])

VIEWS_AND_COLUMNS_QUERY(cat) ==
    LET vs == SelectSeq(cat.views, LAMBDA v : ~v.is_ms_shipped)
        RowsOf(v) == [i \in 1..Len(v.columns) |->
                        [schema_name |-> v.schema, view_name |-> v.name,
                         column_name |-> v.columns[i],
                         view_definition |-> v.definition]]
    IN  Concat([i \in 1..Len(vs) |-> RowsOf(vs[i])])

VIEW_COLUMN_SOURCES_QUERY(cat) ==
    LET vs == SelectSeq(cat.views, LAMBDA v : ~v.is_ms_shipped)
        \* CROSS APPLY: every column of the view with every referenced column
        RowsOfCol(v, c) == [j \in 1..Len(v.referenced) |->
                              [view_schema |-> v.schema, view_name |-> v.name,
                               view_column |-> c,
                               source_table |-> v.referenced[j].entity,
                               source_column |-> v.referenced[j].minor]]
        RowsOf(v) == Concat([i \in 1..Len(v.columns) |-> RowsOfCol(v, v.columns[i])])
    IN  Concat([i \in 1..Len(vs) |-> RowsOf(vs[i])])

SCALAR_FUNCTIONS_QUERY(cat) ==
    LET fs == SelectSeq(cat.functions, LAMBDA f : ~f.is_ms_shipped)
        Row(f, p) == [schema_name |-> f.schema, function_name |-> f.name,
                      parameter_name |-> p.name, parameter_type |-> p.type,
                      is_output |-> IF p.is_output THEN <<"1">> ELSE <<"0">>,
                      return_type |-> f.return_type,
                      function_definition |-> f.definition]
        RowsOf(f) == IF f.parameters = <<>> THEN <<Row(f, Param(<<>>, <<>>, FALSE))>>
                     ELSE [i \in 1..Len(f.parameters) |-> Row(f, f.parameters[i])]
    IN  Concat([i \in 1..Len(fs) |-> RowsOf(fs[i])])

-----------------------------------------------------------------------------
(* Result sets that fail.  A failure point is 0 (the query runs to the      *)
(* end), -1 (conn.execute fails) or k >= 1 (the fetch or a required column  *)
(* read of the k-th row fails; k = Len(rows) + 1 is the fetch that would    *)
(* have reported the end of the result set).                                *)

Min(a, b) == IF a < b THEN a ELSE b

FailPoints(rows) == {-1, 0} \cup (1..Min(MaxFailRow, Len(rows) + 1))

\* the rows a loader's loop body has run on when the `?` fires (or the loop ends)
Processed(rows, fail) ==
    IF fail = -1 THEN <<>>
    ELSE IF fail = 0 THEN rows
    ELSE SubSeq(rows, 1, fail - 1)

Ok(v) == [ok |-> TRUE, value |-> v]
Err == [ok |-> FALSE, value |-> <<>>]

\* HashMap::insert
Insert(m, k, v) == [x \in (DOMAIN m) \cup {k} |-> IF x = k THEN v ELSE m[x]]

None == <<>>
Some(x) == <<x>>

\* the columns a loader reads with `?`
RequiredColumns(query) ==
    CASE query = "tables" ->
             {"schema_name", "table_name", "column_name", "data_type", "max_length",
              "precision", "scale", "is_nullable", "is_primary_key"}
      [] query = "views" ->
             {"schema_name", "view_name", "column_name", "data_type", "max_length",
              "precision", "scale", "is_nullable"}
      [] query = "sources" ->
             {"view_schema", "view_name", "view_column", "source_table", "source_column"}
      [] query = "fks" ->
             {"fk_name", "src_schema", "src_table", "src_column", "ref_schema",
              "ref_table", "ref_column"}
      [] query = "triggers" ->
             {"schema_name", "table_name", "trigger_name", "trigger_type", "is_disabled",
              "is_insert", "is_update", "is_delete"}
      [] query = "procs" -> {"schema_name", "procedure_name", "procedure_type"}
      [] query = "funcs" -> {"schema_name", "function_name", "function_type"}

\* the columns a loader reads with unwrap_or_default() or unwrap_or(false)
OptionalColumns(query) ==
    CASE query = "views" -> {"view_definition"}
      [] query = "triggers" -> {"trigger_definition"}
      [] query = "procs" ->
             {"parameter_name", "parameter_type", "is_output", "procedure_definition"}
      [] query = "funcs" ->
             {"parameter_name", "parameter_type", "is_output", "return_type",
              "function_definition"}
      [] OTHER -> {}

RECURSIVE AtMost(_, _)
\* the subsets of S with at most n elements
AtMost(S, n) ==
    IF n <= 0 THEN {{}}
    ELSE LET smaller == AtMost(S, n - 1)
         IN  smaller \cup {s \cup {c} : s \in smaller, c \in S}

\* the cells of one result set, out of `cells`
CellsOf(query, cells) ==
    {[row |-> c.row, col |-> c.col] : c \in {d \in cells : d.query = query}}

\* the rows of the batch, each with the columns of it that cannot be read
Mark(rows, cells) ==
    [i \in 1..Len(rows) |->
        [x \in (DOMAIN rows[i]) \cup {"unreadable"} |->
            IF x = "unreadable" THEN {c.col : c \in {d \in cells : d.row = i}}
            ELSE rows[i][x]]]

get_string_column(row, col) ==
    IF col \in row.unreadable THEN Err ELSE Ok(row[col])

get_bool_column(row, col) ==
    LET s == get_string_column(row, col)
    IN  IF s.ok
        THEN Ok(s.value = <<"1">> \/ to_lowercase(s.value) = <<"t", "r", "u", "e">>)
        ELSE Err

\* Result::unwrap_or
unwrap_or(res, default) == IF res.ok THEN res.value ELSE default

\* variant: an Err is turned into the text "?"
unwrap_or_placeholder(res) == IF res.ok THEN res.value ELSE <<"?">>

\* Result::unwrap_or_default on a String
unwrap_or_default(res) == IF res.ok THEN res.value ELSE <<>>

\* where the loop of a loader stops: -1, 0, or the first row whose fetch or
\* whose read of a required column fails
StopsAt(query, rows, fail) ==
    LET bad == {i \in 1..Len(rows) : rows[i].unreadable \cap RequiredColumns(query) # {}}
        first == CHOOSE i \in bad : \A j \in bad : i <= j
    IN  IF fail = -1 \/ bad = {} THEN fail
        ELSE IF fail = 0 \/ first < fail THEN first
        ELSE fail

-----------------------------------------------------------------------------
(* db/schema_loader.rs: the loaders.  Each takes the rows its query returns *)
(* and the failure point of the result set.                                 *)

RECURSIVE FoldTables(_, _)
\* the loop body of load_tables_and_columns, over the rows in order
FoldTables(rows, m) ==
    IF rows = <<>> THEN m
    ELSE LET r == Head(rows)
             table_id == format_id(r.schema_name, r.table_name)
             column == [name |-> r.column_name, is_primary_key |-> r.is_primary_key,
                        source_table |-> None, source_column |-> None]
             m2 == IF table_id \in DOMAIN m
                   THEN [m EXCEPT ![table_id].columns = Append(@, column)]
                   ELSE Insert(m, table_id,
                               [id |-> table_id, name |-> r.table_name,
                                schema |-> r.schema_name, columns |-> <<column>>])
         IN  FoldTables(Tail(rows), m2)

\* Result<Vec<TableNode>>: the set of values the call can return
load_tables_and_columns(rows, fail) ==
    LET m == FoldTables(Processed(rows, fail), <<>>)
    IN  IF fail # 0 THEN {Err} ELSE {Ok(ts) : ts \in into_values(m)}

RECURSIVE FoldViews(_, _)
\* the loop body of load_views_and_columns
FoldViews(rows, m) ==
    IF rows = <<>> THEN m
    ELSE LET r == Head(rows)
             view_id == format_id(r.schema_name, r.view_name)
             column == [name |-> r.column_name, is_primary_key |-> FALSE,
                        source_table |-> None, source_column |-> None]
             m2 == IF view_id \in DOMAIN m
                   THEN [m EXCEPT ![view_id].columns = Append(@, column)]
                   ELSE Insert(m, view_id,
                               [id |-> view_id, name |-> r.view_name,
                                schema |-> r.schema_name, columns |-> <<column>>,
                                definition |-> unwrap_or_default(get_string_column(r, "view_definition")),
                                referenced_tables |-> <<>>])
         IN  FoldViews(Tail(rows), m2)

\* variant: a failed result set is treated as its end and the rows read are kept
load_views_and_columns_swallow(rows, fail) ==
    {Ok(vs) : vs \in into_values(FoldViews(Processed(rows, fail), <<>>))}

load_views_and_columns(rows, fail) ==
    LET m == FoldViews(Processed(rows, fail), <<>>)
    IN  IF fail # 0 THEN {Err} ELSE {Ok(vs) : vs \in into_values(m)}

RECURSIVE FoldSources(_, _)
\* the loop body of load_view_column_sources: view_id -> column -> (table, column)
FoldSources(rows, column_sources) ==
    IF rows = <<>> THEN column_sources
    ELSE LET r == Head(rows)
             view_id == format_id(r.view_schema, r.view_name)
             inner == IF view_id \in DOMAIN column_sources
                      THEN column_sources[view_id] ELSE <<>>
         IN  FoldSources(Tail(rows),
                 Insert(column_sources, view_id,
                        Insert(inner, r.view_column,
                               <<r.source_table, r.source_column>>)))

\* "Apply sources to view columns"
ApplySources(vs, column_sources) ==
    [i \in 1..Len(vs) |->
        IF vs[i].id \in DOMAIN column_sources
        THEN [vs[i] EXCEPT !.columns =
                [j \in 1..Len(vs[i].columns) |->
                    LET column == vs[i].columns[j]
                        view_sources == column_sources[vs[i].id]
                    IN  IF column.name \in DOMAIN view_sources
                        THEN [column EXCEPT
                                !.source_table = Some(view_sources[column.name][1]),
                                !.source_column = Some(view_sources[column.name][2])]
                        ELSE column]]
        ELSE vs[i]]

\* Result<()> and the views as the call leaves them
load_view_column_sources(vs, rows, fail) ==
    IF fail # 0 THEN [ok |-> FALSE, value |-> vs]
    ELSE Ok(ApplySources(vs, FoldSources(Processed(rows, fail), <<>>)))

RECURSIVE InsertNames(_, _)
\* one loop of build_name_lookup: two inserts per object, in list order
InsertNames(objs, m) ==
    IF objs = <<>> THEN m
    ELSE LET o == Head(objs)
         IN  InsertNames(Tail(objs),
                 Insert(Insert(m, to_lowercase(o.name), o.id),
                        to_lowercase(o.id), o.id))

build_name_lookup(ts, vs) == InsertNames(vs, InsertNames(ts, <<>>))

-----------------------------------------------------------------------------
(* db/schema_loader.rs: reference extraction                                *)

\* the keyword part of each regex; every pattern ends with
\* \s+(?:\[?(\w+)\]?\.)?\[?(\w+)\]? , i.e. captures the next word
READ_PATTERNS == << <<"FROM">>, <<"JOIN">> >>

\* variant: no write pattern for DELETE FROM
WRITE_PATTERNS_without_delete == << <<"INSERT", "INTO">>, <<"UPDATE">> >>

WRITE_PATTERNS == << <<"INSERT", "INTO">>, <<"UPDATE">>, <<"DELETE", "FROM">> >>

\* the pattern matches at token i: its keywords, then a word to capture
MatchesAt(pattern, definition, i) ==
    /\ i + Len(pattern) <= Len(definition)
    /\ \A j \in 1..Len(pattern) : definition[i + j - 1].kw = pattern[j]
    /\ definition[i + Len(pattern)].kw # "PUNCT"

RECURSIVE captures_iter(_, _, _)
\* Regex::captures_iter: the non-overlapping matches from token i on, leftmost first
captures_iter(pattern, definition, i) ==
    IF i > Len(definition) THEN {}
    ELSE IF MatchesAt(pattern, definition, i)
         THEN {definition[i + Len(pattern)]}
              \cup captures_iter(pattern, definition, i + Len(pattern) + 1)
         ELSE captures_iter(pattern, definition, i + 1)

\* `lookup_key`: schema.table or table, lowercased
lookup_key(cap) ==
    IF cap.s # <<>> THEN to_lowercase(format_id(cap.s, cap.n))
    ELSE to_lowercase(cap.n)

\* the keys captured by any pattern of the list
CapturedKeys(patterns, definition) ==
    UNION {{lookup_key(cap) : cap \in captures_iter(patterns[p], definition, 1)} :
              p \in 1..Len(patterns)}

\* variant: a captured key that is not in the index is kept as it is
ResolvedRefs_unchecked(patterns, definition, idx) ==
    {IF k \in DOMAIN idx THEN idx[k] ELSE k : k \in CapturedKeys(patterns, definition)}

\* the HashSet a pattern list fills: ids of the captured keys found in the index
ResolvedRefs(patterns, definition, idx) ==
    {idx[k] : k \in CapturedKeys(patterns, definition) \cap DOMAIN idx}

\* (Vec<String>, Vec<String>): the set of pairs the call can return
extract_table_references(definition, idx) ==
    IF definition = <<>> THEN {<<<<>>, <<>>>>}
    ELSE {<<r, w>> : r \in into_iter(ResolvedRefs(READ_PATTERNS, definition, idx)),
                     w \in into_iter(ResolvedRefs(WRITE_PATTERNS, definition, idx))}

\* sequences whose i-th element is drawn from C[i]
SeqChoices(C) ==
    {s \in [1..Len(C) -> UNION Range(C)] : \A i \in 1..Len(C) : s[i] \in C[i]}

\* the views with referenced_tables set from the read references of the definition
load_views_with_references(vs, idx) ==
    SeqChoices([i \in 1..Len(vs) |->
        {[vs[i] EXCEPT !.referenced_tables = p[1]] :
            p \in extract_table_references(vs[i].definition, idx)}])

load_foreign_keys(rows, fail) ==
    LET done == Processed(rows, fail)
        rels == [i \in 1..Len(done) |->
                    [id |-> done[i].fk_name,
                     from |-> format_id(done[i].src_schema, done[i].src_table),
                     to |-> format_id(done[i].ref_schema, done[i].ref_table),
                     from_column |-> done[i].src_column,
                     to_column |-> done[i].ref_column]]
    IN  IF fail # 0 THEN {Err} ELSE {Ok(rels)}

load_triggers(rows, fail, idx) ==
    LET done == Processed(rows, fail)
        definition(r) == unwrap_or_default(get_string_column(r, "trigger_definition"))
        TriggerOf(r, p) ==
            [id |-> format_id(format_id(r.schema_name, r.table_name), r.trigger_name),
             name |-> r.trigger_name, schema |-> r.schema_name,
             table_id |-> format_id(r.schema_name, r.table_name),
             definition |-> definition(r),
             referenced_tables |-> p[1], affected_tables |-> p[2]]
        trs == SeqChoices([i \in 1..Len(done) |->
                  {TriggerOf(done[i], p) :
                      p \in extract_table_references(definition(done[i]), idx)}])
    IN  IF fail # 0 THEN {Err} ELSE {Ok(t) : t \in trs}

\* a record with the fields of both records
Merge(a, b) ==
    [x \in (DOMAIN a) \cup (DOMAIN b) |-> IF x \in DOMAIN a THEN a[x] ELSE b[x]]

\* ProcedureParameter { name, data_type, is_output } from the optional columns
ParameterOf(r) ==
    [name |-> unwrap_or_default(get_string_column(r, "parameter_name")),
     data_type |-> unwrap_or_default(get_string_column(r, "parameter_type")),
     is_output |-> unwrap_or(get_bool_column(r, "is_output"), FALSE)]

\* entry(id).or_insert_with(...) then the parameter push, for one routine row;
\* the set of maps the row can leave
RoutineRow(m, node, parameter, idx) ==
    LET inserted ==
            IF node.id \in DOMAIN m THEN {m}
            ELSE {Insert(m, node.id,
                         Merge(node, [parameters |-> <<>>,
                                      referenced_tables |-> p[1],
                                      affected_tables |-> p[2]])) :
                     p \in extract_table_references(node.definition, idx)}
    IN  {IF parameter.name # <<>>
         THEN [m2 EXCEPT ![node.id].parameters = Append(@, parameter)]
         ELSE m2 : m2 \in inserted}

RECURSIVE FoldProcedures(_, _, _)
\* the loop of load_stored_procedures over the rows, on every map it can hold
FoldProcedures(rows, ms, idx) ==
    IF rows = <<>> THEN ms
    ELSE LET r == Head(rows)
             node == [id |-> format_id(r.schema_name, r.procedure_name),
                      name |-> r.procedure_name, schema |-> r.schema_name,
                      definition |-> unwrap_or_default(
                                         get_string_column(r, "procedure_definition"))]
         IN  FoldProcedures(Tail(rows),
                            UNION {RoutineRow(m, node, ParameterOf(r), idx) : m \in ms},
                            idx)

load_stored_procedures(rows, fail, idx) ==
    LET ms == FoldProcedures(Processed(rows, fail), {<<>>}, idx)
    IN  IF fail # 0 THEN {Err} ELSE {Ok(ps) : ps \in UNION {into_values(m) : m \in ms}}

RECURSIVE FoldFunctions(_, _, _)
\* the loop of load_scalar_functions
FoldFunctions(rows, ms, idx) ==
    IF rows = <<>> THEN ms
    ELSE LET r == Head(rows)
             node == [id |-> format_id(r.schema_name, r.function_name),
                      name |-> r.function_name, schema |-> r.schema_name,
                      return_type |-> unwrap_or_default(
                                          get_string_column(r, "return_type")),
                      definition |-> unwrap_or_default(
                                         get_string_column(r, "function_definition"))]
         IN  FoldFunctions(Tail(rows),
                           UNION {RoutineRow(m, node, ParameterOf(r), idx) : m \in ms},
                           idx)

load_scalar_functions(rows, fail, idx) ==
    LET ms == FoldFunctions(Processed(rows, fail), {<<>>}, idx)
    IN  IF fail # 0 THEN {Err} ELSE {Ok(fs) : fs \in UNION {into_values(m) : m \in ms}}

-----------------------------------------------------------------------------
(* db/schema_loader.rs: load_schema_from_connection, one action per         *)
(* statement                                                                *)

NoFailure == [query |-> "none", at |-> 0]
NoResult == [kind |-> "none", graph |-> <<>>]

\* the variables of the connection side while a schema load is modelled
\* format_data_type is not being called
FmtIdle ==
    /\ type_name = "" /\ max_length = 0 /\ precision = 0 /\ scale = 0
    /\ formatted = <<>>

\* the locals of load_schema_mock before anything is generated
NoFrame ==
    [config |-> <<>>, tables |-> <<>>, relationships |-> <<>>, views |-> <<>>,
     triggers |-> <<>>, stored_procedures |-> <<>>, scalar_functions |-> <<>>]

\* load_schema_mock is not being called
MockIdle ==
    /\ usize_bits = 64 /\ mpc = "idle" /\ size = "" /\ frame = NoFrame
    /\ returned = <<>>

Threads == 1..MaxThreads

NoCall == [op |-> "none"]

\* AppSettings::default()
DefaultSettings == [recent_connections |-> <<>>, theme |-> <<>>, schema_filter |-> <<>>]

\* no AppState is in use
StoreIdle ==
    /\ settings = DefaultSettings /\ file = <<>> /\ lock = 0
    /\ tpc = [t \in Threads |-> "idle"] /\ call = [t \in Threads |-> NoCall]
    /\ started = 0 /\ last_op = NoCall /\ overtaken = FALSE

AuxIdle == FmtIdle /\ MockIdle /\ StoreIdle

ConnIdle ==
    /\ entry = "none" /\ database = "none"
    /\ server = <<>> /\ auth_type = "SqlServer" /\ windows = FALSE
    /\ net = <<>> /\ cpc = "idle"
    /\ host = <<>> /\ instance = <<>> /\ addr_idx = 0
    /\ timed_out = FALSE /\ invalid_response = FALSE /\ missing_port = FALSE
    /\ last_io_error = FALSE /\ attempts = <<>>
    /\ ssrp_result = [kind |-> "none", port |-> 0, arg |-> <<>>]
    /\ parsed = [kind |-> "none", host |-> <<>>, port |-> 0,
                 instance |-> <<>>, reason |-> [kind |-> "none", arg |-> <<>>]]
    /\ tcp_connects = 0 /\ client_result = "none"

\* the variables of the schema load while a connection is modelled
LoadIdle ==
    /\ catalog = <<>> /\ pc = "idle"
    /\ tables = <<>> /\ views = <<>> /\ name_to_id = <<>>
    /\ relationships = <<>> /\ triggers = <<>>
    /\ stored_procedures = <<>> /\ scalar_functions = <<>>
    /\ issued = <<>> /\ failed = NoFailure /\ result = NoResult
    /\ dropped = -1 /\ delivered = "none" /\ cursor_log = <<>>
    /\ unreadable = {}

Init ==
    /\ catalog \in Catalogs
    /\ pc = "connect"
    /\ tables = <<>> /\ views = <<>> /\ name_to_id = <<>>
    /\ relationships = <<>> /\ triggers = <<>>
    /\ stored_procedures = <<>> /\ scalar_functions = <<>>
    /\ issued = <<>> /\ failed = NoFailure /\ result = NoResult
    /\ dropped = -1 /\ delivered = "none" /\ cursor_log = <<>>
    /\ unreadable = {}
    /\ ConnIdle
    /\ AuxIdle

\* the result set of each catalog query
QueryRows(query, cat) ==
    CASE query = "tables" -> TABLES_AND_COLUMNS_QUERY(cat)
      [] query = "views" -> VIEWS_AND_COLUMNS_QUERY(cat)
      [] query = "sources" -> VIEW_COLUMN_SOURCES_QUERY(cat)
      [] query = "fks" -> FOREIGN_KEYS_QUERY(cat)
      [] query = "triggers" -> TRIGGERS_QUERY(cat)
      [] query = "procs" -> STORED_PROCEDURES_QUERY(cat)
      [] query = "funcs" -> SCALAR_FUNCTIONS_QUERY(cat)

Queries == {"tables", "views", "sources", "fks", "triggers", "procs", "funcs"}

\* the cells of the result sets of a database, over the first MaxFailRow rows
CellUniverse(cat) ==
    {[query |-> q, row |-> k, col |-> c] :
        q \in Queries, k \in 1..MaxFailRow,
        c \in UNION {RequiredColumns(x) \cup OptionalColumns(x) : x \in Queries}}
    \cap UNION {{[query |-> q, row |-> k, col |-> c] :
                    k \in 1..Len(QueryRows(q, cat)),
                    c \in RequiredColumns(q) \cup OptionalColumns(q)} : q \in Queries}

\* the databases loaded with unreadable cells: tables r.T and s.T, view s.V
CellCatalogs ==
    {cat \in Catalogs :
        /\ {cat.tables[i].object_id : i \in 1..Len(cat.tables)} = {1, 3}
        /\ {cat.views[i].object_id : i \in 1..Len(cat.views)} = {6}}

\* a load from a database some of whose cells the driver cannot read
InitCells ==
    /\ catalog \in CellCatalogs
    /\ unreadable \in AtMost(CellUniverse(catalog), MaxUnreadable)
    /\ pc = "connect"
    /\ tables = <<>> /\ views = <<>> /\ name_to_id = <<>>
    /\ relationships = <<>> /\ triggers = <<>>
    /\ stored_procedures = <<>> /\ scalar_functions = <<>>
    /\ issued = <<>> /\ failed = NoFailure /\ result = NoResult
    /\ dropped = -1 /\ delivered = "none" /\ cursor_log = <<>>
    /\ ConnIdle
    /\ AuxIdle

\* the `?` operator on an Err: load_schema_from_connection returns the error
Propagate ==
    /\ result' = [kind |-> "err", graph |-> <<>>]
    /\ pc' = "done"

\* variant: the cursor is still open when the loader returns
cursor_scope_leaked(query, fail) ==
    IF fail = -1 THEN <<>> ELSE << <<"open", query>> >>

\* `if let Some(mut cursor) = conn.execute(QUERY, ())? { ... }`: the cursor
\* lives inside the block and is dropped when the block is left, by its end or
\* by a `?`; a failed execute opens none
cursor_scope(query, fail) ==
    IF fail = -1 THEN <<>> ELSE << <<"open", query>>, <<"close", query>> >>

\* what the database did to the result set of `query`
Record(query, fail) ==
    /\ failed' = IF fail # 0 THEN [query |-> query, at |-> fail] ELSE failed
    /\ cursor_log' = cursor_log \o cursor_scope(query, fail)

\* let conn = create_connection(connection_string)?;
CreateConnection ==
    /\ pc = "connect"
    /\ \E connected \in BOOLEAN :
          IF connected
          THEN pc' = "tables" /\ UNCHANGED <<failed, result, cursor_log>>
          ELSE Propagate /\ Record("connect", -1)
    /\ UNCHANGED <<catalog, unreadable, tables, views, name_to_id, relationships, triggers,
                   stored_procedures, scalar_functions, issued>>
    /\ UNCHANGED <<dropped, delivered>>
    /\ UNCHANGED <<connVars, auxVars>>

\* let tables = load_tables_and_columns(&conn)?;
LoadTables ==
    /\ pc = "tables"
    /\ LET rows == TABLES_AND_COLUMNS_QUERY(catalog)
       IN  \E fail \in FailPoints(rows) :
              LET batch == Mark(rows, CellsOf("tables", unreadable))
                  stop == StopsAt("tables", batch, fail)
              IN  /\ Record("tables", stop)
                  /\ \E out \in load_tables_and_columns(batch, stop) :
                        IF out.ok
                        THEN tables' = out.value /\ pc' = "views" /\ UNCHANGED result
                        ELSE Propagate /\ UNCHANGED tables
    /\ issued' = Append(issued, "tables")
    /\ UNCHANGED <<catalog, unreadable, views, name_to_id, relationships, triggers,
                   stored_procedures, scalar_functions>>
    /\ UNCHANGED <<dropped, delivered>>
    /\ UNCHANGED <<connVars, auxVars>>

\* let mut views = load_views_and_columns(&conn)?;
LoadViews ==
    /\ pc = "views"
    /\ LET rows == VIEWS_AND_COLUMNS_QUERY(catalog)
       IN  \E fail \in FailPoints(rows) :
              LET batch == Mark(rows, CellsOf("views", unreadable))
                  stop == StopsAt("views", batch, fail)
              IN  /\ Record("views", stop)
                  /\ \E out \in load_views_and_columns(batch, stop) :
                        IF out.ok
                        THEN views' = out.value /\ pc' = "sources" /\ UNCHANGED result
                        ELSE Propagate /\ UNCHANGED views
    /\ issued' = Append(issued, "views")
    /\ UNCHANGED <<catalog, unreadable, tables, name_to_id, relationships, triggers,
                   stored_procedures, scalar_functions>>
    /\ UNCHANGED <<dropped, delivered>>
    /\ UNCHANGED <<connVars, auxVars>>

\* load_view_column_sources(&conn, &mut views)?;
LoadViewColumnSources ==
    /\ pc = "sources"
    /\ LET rows == VIEW_COLUMN_SOURCES_QUERY(catalog)
       IN  \E fail \in FailPoints(rows) :
              LET batch == Mark(rows, CellsOf("sources", unreadable))
                  stop == StopsAt("sources", batch, fail)
                  out == load_view_column_sources(views, batch, stop)
              IN  /\ Record("sources", stop)
                  /\ views' = out.value
                  /\ IF out.ok
                     THEN pc' = "lookup" /\ UNCHANGED result
                     ELSE Propagate
    /\ issued' = Append(issued, "sources")
    /\ UNCHANGED <<catalog, unreadable, tables, name_to_id, relationships, triggers,
                   stored_procedures, scalar_functions>>
    /\ UNCHANGED <<dropped, delivered>>
    /\ UNCHANGED <<connVars, auxVars>>

\* let name_to_id = build_name_lookup(&tables, &views);
BuildNameLookup ==
    /\ pc = "lookup"
    /\ name_to_id' = build_name_lookup(tables, views)
    /\ pc' = "view_refs"
    /\ UNCHANGED <<catalog, unreadable, tables, views, relationships, triggers,
                   stored_procedures, scalar_functions, issued, failed, result, cursor_log>>
    /\ UNCHANGED <<dropped, delivered>>
    /\ UNCHANGED <<connVars, auxVars>>

\* variant: the index is built again, from the views alone, while the view
\* references are resolved
LoadViewsWithReferences_reindexes ==
    /\ pc = "view_refs"
    /\ views' \in load_views_with_references(views, name_to_id)
    /\ name_to_id' = InsertNames(views, <<>>)
    /\ pc' = "fks"
    /\ UNCHANGED <<catalog, unreadable, tables, relationships, triggers,
                   stored_procedures, scalar_functions, issued, failed, result, cursor_log>>
    /\ UNCHANGED <<dropped, delivered>>
    /\ UNCHANGED <<connVars, auxVars>>

\* load_views_with_references(&mut views, &name_to_id);
LoadViewsWithReferences ==
    /\ pc = "view_refs"
    /\ views' \in load_views_with_references(views, name_to_id)
    /\ pc' = "fks"
    /\ UNCHANGED <<catalog, unreadable, tables, name_to_id, relationships, triggers,
                   stored_procedures, scalar_functions, issued, failed, result, cursor_log>>
    /\ UNCHANGED <<dropped, delivered>>
    /\ UNCHANGED <<connVars, auxVars>>

\* let relationships = load_foreign_keys(&conn)?;
LoadForeignKeys ==
    /\ pc = "fks"
    /\ LET rows == FOREIGN_KEYS_QUERY(catalog)
       IN  \E fail \in FailPoints(rows) :
              LET batch == Mark(rows, CellsOf("fks", unreadable))
                  stop == StopsAt("fks", batch, fail)
              IN  /\ Record("fks", stop)
                  /\ \E out \in load_foreign_keys(batch, stop) :
                        IF out.ok
                        THEN relationships' = out.value /\ pc' = "triggers" /\ UNCHANGED result
                        ELSE Propagate /\ UNCHANGED relationships
    /\ issued' = Append(issued, "fks")
    /\ UNCHANGED <<catalog, unreadable, tables, views, name_to_id, triggers,
                   stored_procedures, scalar_functions>>
    /\ UNCHANGED <<dropped, delivered>>
    /\ UNCHANGED <<connVars, auxVars>>

\* let triggers = load_triggers(&conn, &name_to_id)?;
LoadTriggers ==
    /\ pc = "triggers"
    /\ LET rows == TRIGGERS_QUERY(catalog)
       IN  \E fail \in FailPoints(rows) :
              LET batch == Mark(rows, CellsOf("triggers", unreadable))
                  stop == StopsAt("triggers", batch, fail)
              IN  /\ Record("triggers", stop)
                  /\ \E out \in load_triggers(batch, stop, name_to_id) :
                        IF out.ok
                        THEN triggers' = out.value /\ pc' = "procs" /\ UNCHANGED result
                        ELSE Propagate /\ UNCHANGED triggers
    /\ issued' = Append(issued, "triggers")
    /\ UNCHANGED <<catalog, unreadable, tables, views, name_to_id, relationships,
                   stored_procedures, scalar_functions>>
    /\ UNCHANGED <<dropped, delivered>>
    /\ UNCHANGED <<connVars, auxVars>>

\* let stored_procedures = load_stored_procedures(&conn, &name_to_id)?;
LoadStoredProcedures ==
    /\ pc = "procs"
    /\ LET rows == STORED_PROCEDURES_QUERY(catalog)
       IN  \E fail \in FailPoints(rows) :
              LET batch == Mark(rows, CellsOf("procs", unreadable))
                  stop == StopsAt("procs", batch, fail)
              IN  /\ Record("procs", stop)
                  /\ \E out \in load_stored_procedures(batch, stop, name_to_id) :
                        IF out.ok
                        THEN stored_procedures' = out.value /\ pc' = "funcs" /\ UNCHANGED result
                        ELSE Propagate /\ UNCHANGED stored_procedures
    /\ issued' = Append(issued, "procs")
    /\ UNCHANGED <<catalog, unreadable, tables, views, name_to_id, relationships, triggers,
                   scalar_functions>>
    /\ UNCHANGED <<dropped, delivered>>
    /\ UNCHANGED <<connVars, auxVars>>

\* let scalar_functions = load_scalar_functions(&conn, &name_to_id)?;
LoadScalarFunctions ==
    /\ pc = "funcs"
    /\ LET rows == SCALAR_FUNCTIONS_QUERY(catalog)
       IN  \E fail \in FailPoints(rows) :
              LET batch == Mark(rows, CellsOf("funcs", unreadable))
                  stop == StopsAt("funcs", batch, fail)
              IN  /\ Record("funcs", stop)
                  /\ \E out \in load_scalar_functions(batch, stop, name_to_id) :
                        IF out.ok
                        THEN scalar_functions' = out.value /\ pc' = "return" /\ UNCHANGED result
                        ELSE Propagate /\ UNCHANGED scalar_functions
    /\ issued' = Append(issued, "funcs")
    /\ UNCHANGED <<catalog, unreadable, tables, views, name_to_id, relationships, triggers,
                   stored_procedures>>
    /\ UNCHANGED <<dropped, delivered>>
    /\ UNCHANGED <<connVars, auxVars>>

\* Ok(SchemaGraph { tables, views, relationships, triggers, ... })
ReturnGraph ==
    /\ pc = "return"
    /\ result' = [kind |-> "ok",
                  graph |-> [tables |-> tables, views |-> views,
                             relationships |-> relationships, triggers |-> triggers,
                             stored_procedures |-> stored_procedures,
                             scalar_functions |-> scalar_functions]]
    /\ pc' = "done"
    /\ UNCHANGED <<catalog, unreadable, tables, views, name_to_id, relationships, triggers,
                   stored_procedures, scalar_functions, issued, failed, cursor_log>>
    /\ UNCHANGED <<dropped, delivered>>
    /\ UNCHANGED <<connVars, auxVars>>

\* the future of load_schema is dropped while it waits on the JoinHandle of
\* spawn_blocking; the closure keeps running on the blocking thread
DropOperation ==
    /\ pc # "idle" /\ dropped = -1 /\ delivered = "none"
    /\ dropped' = Len(issued)
    /\ UNCHANGED <<catalog, unreadable, pc, tables, views, name_to_id, relationships, triggers,
                   stored_procedures, scalar_functions, issued, failed, result,
                   delivered, cursor_log>>
    /\ UNCHANGED <<connVars, auxVars>>

\* .await on the JoinHandle completes: load_schema returns the closure's result
JoinBlockingTask ==
    /\ pc = "done" /\ dropped = -1 /\ delivered = "none"
    /\ delivered' = result.kind
    /\ UNCHANGED <<catalog, unreadable, pc, tables, views, name_to_id, relationships, triggers,
                   stored_procedures, scalar_functions, issued, failed, result,
                   dropped, cursor_log>>
    /\ UNCHANGED <<connVars, auxVars>>

Next ==
    \/ CreateConnection
    \/ LoadTables
    \/ LoadViews
    \/ LoadViewColumnSources
    \/ BuildNameLookup
    \/ LoadViewsWithReferences
    \/ LoadForeignKeys
    \/ LoadTriggers
    \/ LoadStoredProcedures
    \/ LoadScalarFunctions
    \/ ReturnGraph
    \/ DropOperation
    \/ JoinBlockingTask

Spec == Init /\ [][Next]_vars

SpecCells == InitCells /\ [][Next]_vars

-----------------------------------------------------------------------------
(* Properties of the schema load                                            *)

Ids(objs) == {objs[i].id : i \in 1..Len(objs)}

Returned == result.kind = "ok"

\* C1: if the foreign-key, trigger, procedure or function query fails, a graph
\* is still returned, the failed category is empty and every other category
\* is what a load without that failure produces.
C1_OptionalCategoriesBestEffort ==
    (pc = "done" /\ failed.query \in {"fks", "triggers", "procs", "funcs"}) =>
        /\ Returned
        /\ result.graph.tables = tables
        /\ result.graph.views = views
        /\ IF failed.query = "fks" THEN result.graph.relationships = <<>>
           ELSE Ok(result.graph.relationships)
                    \in load_foreign_keys(FOREIGN_KEYS_QUERY(catalog), 0)
        /\ IF failed.query = "triggers" THEN result.graph.triggers = <<>>
           ELSE Ok(result.graph.triggers)
                    \in load_triggers(TRIGGERS_QUERY(catalog), 0, name_to_id)
        /\ IF failed.query = "procs" THEN result.graph.stored_procedures = <<>>
           ELSE Ok(result.graph.stored_procedures)
                    \in load_stored_procedures(STORED_PROCEDURES_QUERY(catalog), 0,
                                               name_to_id)
        /\ IF failed.query = "funcs" THEN result.graph.scalar_functions = <<>>
           ELSE Ok(result.graph.scalar_functions)
                    \in load_scalar_functions(SCALAR_FUNCTIONS_QUERY(catalog), 0,
                                              name_to_id)

\* C2: a failure of the view-column-sources query, on open or mid-stream, is
\* swallowed: the load returns a graph holding every loaded table and view.
C2_LineageFailureSwallowed ==
    (pc = "done" /\ failed.query = "sources") =>
        /\ Returned
        /\ Ids(result.graph.tables) = Ids(tables)
        /\ Ids(result.graph.views) = Ids(views)

\* C3: when the lineage query fails on its k-th row, the returned views carry
\* exactly the sources of rows 1..k-1.
C3_PartialLineageRetained ==
    (pc = "done" /\ failed.query = "sources" /\ failed.at >= 1) =>
        /\ Returned
        /\ LET kept == FoldSources(
                          SubSeq(VIEW_COLUMN_SOURCES_QUERY(catalog), 1, failed.at - 1),
                          <<>>)
               gv == result.graph.views
           IN  \A i \in 1..Len(gv) : \A j \in 1..Len(gv[i].columns) :
                  LET c == gv[i].columns[j]
                      has == /\ gv[i].id \in DOMAIN kept
                             /\ c.name \in DOMAIN kept[gv[i].id]
                  IN  /\ c.source_table =
                            IF has THEN Some(kept[gv[i].id][c.name][1]) ELSE None
                      /\ c.source_column =
                            IF has THEN Some(kept[gv[i].id][c.name][2]) ELSE None

\* C4: if the tables or the views query fails, the load returns the error, no
\* graph, and the failed query is the last one issued on the connection.
C4_MandatoryFailureIsFatal ==
    failed.query \in {"tables", "views"} =>
        /\ pc = "done"
        /\ result.kind = "err"
        /\ result.graph = <<>>
        /\ issued # <<>>
        /\ issued[Len(issued)] = failed.query

\* C4 witness: the views query failed on its second row after the tables loaded
C4_Witness ==
    /\ pc = "done" /\ failed = [query |-> "views", at |-> 2]
    /\ tables # <<>> /\ result.kind = "err"

\* C6: in a returned graph both ends of every relationship are ids of tables
\* of the graph.
C6_RelationshipEndsAreTables ==
    Returned =>
        \A i \in 1..Len(result.graph.relationships) :
            /\ result.graph.relationships[i].from \in Ids(result.graph.tables)
            /\ result.graph.relationships[i].to \in Ids(result.graph.tables)

\* C7: in a returned graph every trigger's table_id is the id of a table of
\* the graph.
C7_TriggerTableExists ==
    Returned =>
        \A i \in 1..Len(result.graph.triggers) :
            result.graph.triggers[i].table_id \in Ids(result.graph.tables)

\* C7 witness: a graph with a trigger, from a catalog that also holds a trigger
\* on a table the tables query does not return
C7_Witness ==
    /\ Returned
    /\ result.graph.triggers # <<>>
    /\ \E i \in 1..Len(catalog.triggers), j \in 1..Len(catalog.tables) :
          /\ catalog.tables[j].object_id = catalog.triggers[i].parent_id
          /\ catalog.tables[j].is_ms_shipped

\* the lists of references of the objects of a sequence
RefsOf(objs) == UNION {Range(objs[i].referenced_tables) : i \in 1..Len(objs)}
AffectsOf(objs) == UNION {Range(objs[i].affected_tables) : i \in 1..Len(objs)}

AllPatterns == READ_PATTERNS \o WRITE_PATTERNS

\* C8: in a returned graph every referenced or affected id is the id of a
\* table or view of the graph, and a definition none of whose captured
\* identifiers is a key of the name index yields empty lists.
C8_ReferencesResolve ==
    Returned =>
        LET g == result.graph
            known == Ids(g.tables) \cup Ids(g.views)
            routines == g.triggers \o g.stored_procedures \o g.scalar_functions
        IN  /\ RefsOf(g.views) \subseteq known
            /\ RefsOf(routines) \cup AffectsOf(routines) \subseteq known
            /\ \A i \in 1..Len(routines) :
                  CapturedKeys(AllPatterns, routines[i].definition)
                        \cap DOMAIN name_to_id = {}
                    => /\ routines[i].referenced_tables = <<>>
                       /\ routines[i].affected_tables = <<>>

\* C8 witness: a returned trigger that reads and writes resolved objects and
\* whose definition also names an object that is not in the name index
C8_Witness ==
    /\ Returned
    /\ \E i \in 1..Len(result.graph.triggers) :
          LET t == result.graph.triggers[i]
          IN  /\ t.referenced_tables # <<>>
              /\ t.affected_tables # <<>>
              /\ CapturedKeys(AllPatterns, t.definition) \ DOMAIN name_to_id # {}

\* C9: in a returned graph no two objects share an id, over tables, views,
\* triggers, stored procedures and scalar functions together.
C9_ObjectIdsUnique ==
    Returned =>
        LET g == result.graph
            objs == g.tables \o g.views \o g.triggers
                      \o g.stored_procedures \o g.scalar_functions
        IN  \A i, j \in 1..Len(objs) : i # j => objs[i].id # objs[j].id

-----------------------------------------------------------------------------
(* String helpers of db/connection.rs and db/ssrp.rs                        *)

\* index of the first occurrence of c in s, 0 when there is none
Find(s, c) ==
    IF \E i \in 1..Len(s) : s[i] = c
    THEN CHOOSE i \in 1..Len(s) : s[i] = c /\ \A j \in 1..(i - 1) : s[j] # c
    ELSE 0

\* index of the last occurrence of c in s, 0 when there is none
RFind(s, c) ==
    IF \E i \in 1..Len(s) : s[i] = c
    THEN CHOOSE i \in 1..Len(s) : s[i] = c /\ \A j \in (i + 1)..Len(s) : s[j] # c
    ELSE 0

\* str::split_once(c): None, or Some((before, after)) around the first c
split_once(s, c) ==
    LET i == Find(s, c)
    IN  IF i = 0 THEN None
        ELSE Some(<<SubSeq(s, 1, i - 1), SubSeq(s, i + 1, Len(s))>>)

\* str::rsplit_once(c): None, or Some((before, after)) around the last c
rsplit_once(s, c) ==
    LET i == RFind(s, c)
    IN  IF i = 0 THEN None
        ELSE Some(<<SubSeq(s, 1, i - 1), SubSeq(s, i + 1, Len(s))>>)

\* str::trim
trim(s) ==
    LET keep == {i \in 1..Len(s) : s[i] # " "}
    IN  IF keep = {} THEN <<>>
        ELSE LET lo == CHOOSE i \in keep : \A j \in keep : i <= j
                 hi == CHOOSE i \in keep : \A j \in keep : j <= i
             IN  SubSeq(s, lo, hi)

DigitValue(c) ==
    CASE c = "0" -> 0 [] c = "1" -> 1 [] c = "2" -> 2 [] c = "3" -> 3 [] c = "4" -> 4
      [] c = "5" -> 5 [] c = "6" -> 6 [] c = "7" -> 7 [] c = "8" -> 8 [] c = "9" -> 9
      [] OTHER -> -1

RECURSIVE DecimalValue(_, _)
\* the digits of s accumulated onto acc, saturating above u16::MAX
DecimalValue(s, acc) ==
    IF s = <<>> THEN acc
    ELSE LET v == acc * 10 + DigitValue(Head(s))
         IN  DecimalValue(Tail(s), IF v > 65535 THEN 65536 ELSE v)

\* str::parse::<u16>(): None, or Some(n); an optional '+', then digits only
parse_u16(s) ==
    LET digits == IF s # <<>> /\ Head(s) = "+" THEN Tail(s) ELSE s
    IN  IF digits = <<>> \/ \E i \in 1..Len(digits) : DigitValue(digits[i]) < 0
        THEN None
        ELSE LET v == DecimalValue(digits, 0)
             IN  IF v > 65535 THEN None ELSE Some(v)

-----------------------------------------------------------------------------
(* db/ssrp.rs                                                               *)

\* the byte of an ASCII character (str::as_bytes)
ByteOf(c) ==
    CASE c = ";" -> 59 [] c = "7" -> 55 [] c = "0" -> 48 [] c = "a" -> 97 [] c = "h" -> 104
      [] c = "t" -> 116 [] c = "c" -> 99 [] c = "p" -> 112
      [] c = "T" -> 84 [] c = "C" -> 67 [] c = "P" -> 80

\* String::from_utf8_lossy on one byte
CharOf(b) ==
    CASE b = 59 -> ";" [] b = 55 -> "7" [] b = 48 -> "0" [] b = 97 -> "a" [] b = 104 -> "h"
      [] b = 116 -> "t" [] b = 99 -> "c" [] b = 112 -> "p"
      [] b = 84 -> "T" [] b = 67 -> "C" [] b = 80 -> "P"
      [] OTHER -> "?"

Bytes(s) == [i \in 1..Len(s) |-> ByteOf(s[i])]

RECURSIVE split(_, _)
\* str::split(c).collect()
split(s, c) ==
    LET i == Find(s, c)
    IN  IF i = 0 THEN <<s>>
        ELSE <<SubSeq(s, 1, i - 1)>> \o split(SubSeq(s, i + 1, Len(s)), c)

eq_ignore_ascii_case(a, b) == to_lowercase(a) = to_lowercase(b)

\* Result<u16, SsrpError>
SsrpOk(port) == [kind |-> "Ok", port |-> port, arg |-> <<>>]
SsrpErr(kind, arg) == [kind |-> kind, port |-> 0, arg |-> arg]

\* variant: the last "tcp" token of the payload decides
parse_ssrp_response_last_tcp(data, inst) ==
    IF Len(data) < 3 \/ data[1] # 5 THEN SsrpErr("InvalidResponse", <<>>)
    ELSE LET response_str == [i \in 1..(Len(data) - 3) |-> CharOf(data[i + 3])]
             parts == split(response_str, ";")
             hits == {i \in 1..(Len(parts) - 1) : eq_ignore_ascii_case(parts[i], <<"t", "c", "p">>)}
         IN  IF hits = {} THEN SsrpErr("PortNotFound", inst)
             ELSE LET w == CHOOSE i \in hits : \A j \in hits : j <= i
                      port == parse_u16(parts[w + 1])
                  IN  IF port = None THEN SsrpErr("InvalidResponse", <<>>)
                      ELSE SsrpOk(port[1])

parse_ssrp_response(data, inst) ==
    IF Len(data) < 3 \/ data[1] # 5 THEN SsrpErr("InvalidResponse", <<>>)
    ELSE LET response_str == [i \in 1..(Len(data) - 3) |-> CharOf(data[i + 3])]
             parts == split(response_str, ";")
             hits == {i \in 1..(Len(parts) - 1) : eq_ignore_ascii_case(parts[i], <<"t", "c", "p">>)}
         IN  IF hits = {} THEN SsrpErr("PortNotFound", inst)
             ELSE LET w == CHOOSE i \in hits : \A j \in hits : i <= j
                      port == parse_u16(parts[w + 1])
                  IN  IF port = None THEN SsrpErr("InvalidResponse", <<>>)
                      ELSE SsrpOk(port[1])

\* datagrams a browser address can answer with
Responses ==
    { <<4, 0, 0>>,
      <<5, 0>>,
      <<5, 0, 0>>,
      <<5, 3, 0>> \o Bytes(<<"a", ";", "7">>),
      <<5, 5, 0>> \o Bytes(<<"t", "c", "p", ";", "7">>),
      <<5, 5, 0>> \o Bytes(<<"a", ";", "t", "c", "p">>),
      <<5, 11, 0>> \o Bytes(<<"T", "C", "P", ";", "h", ";", "t", "c", "p", ";", "7">>),
      <<5, 11, 0>> \o Bytes(<<"t", "c", "p", ";", "7", ";", "T", "c", "p", ";", "0">>) }

\* what happens when one browser address is tried
Behaviours ==
    {[io |-> k, data |-> <<>>] : k \in {"bind_err", "send_err", "recv_err", "timeout"}}
    \cup {[io |-> "data", data |-> d] : d \in Responses}

\* resolve_browser_addrs: the addresses, each with its behaviour; <<>> stands
\* for a failed or empty lookup
Nets == UNION {[1..n -> Behaviours] : n \in 0..MaxAddrs}

\* the failure kind (or "Ok") that trying an address with behaviour b shows
Outcome(b, inst) ==
    CASE b.io \in {"bind_err", "send_err", "recv_err"} -> "Io"
      [] b.io = "timeout" -> "Timeout"
      [] OTHER -> parse_ssrp_response(b.data, inst).kind

\* variant: the timeout flag is tested before the invalid-response flag
final_error_timeout_first(missing, invalid, timed, io, h, inst) ==
    IF missing THEN SsrpErr("PortNotFound", inst)
    ELSE IF timed THEN SsrpErr("Timeout", <<>>)
    ELSE IF invalid THEN SsrpErr("InvalidResponse", <<>>)
    ELSE IF io THEN SsrpErr("Io", <<>>)
    ELSE SsrpErr("HostResolution", h)

\* the checks after the loop of resolve_instance_port
final_error(missing, invalid, timed, io, h, inst) ==
    IF missing THEN SsrpErr("PortNotFound", inst)
    ELSE IF invalid THEN SsrpErr("InvalidResponse", <<>>)
    ELSE IF timed THEN SsrpErr("Timeout", <<>>)
    ELSE IF io THEN SsrpErr("Io", <<>>)
    ELSE SsrpErr("HostResolution", h)

-----------------------------------------------------------------------------
(* db/connection.rs: parse_server_async and create_client                   *)

DEFAULT_PORT == 1433

ServerChars == {"h", " ", "\\", ",", ":", "7", "0"}

\* server strings whose port is at the ends of the u16 range or carries a sign
ServerExamples ==
    { <<"h", ",", "6", "5", "5", "3", "5">>, <<"h", ",", "6", "5", "5", "3", "6">>,
      <<"h", ":", "6", "5", "5", "3", "5">>, <<"h", ":", "6", "5", "5", "3", "6">>,
      <<"h", ",", "+", "7">> }

\* the server field of ConnectionParams
ServerStrings == UNION {[1..n -> ServerChars] : n \in 0..MaxServerLen} \cup ServerExamples

\* "Check for explicit port (comma separator - SQL Server style)"
comma_rule(srv) ==
    LET sp == split_once(srv, ",")
    IN  IF sp = None THEN None
        ELSE LET port == parse_u16(trim(sp[1][2]))
             IN  IF port = None THEN None ELSE Some(<<trim(sp[1][1]), port[1]>>)

\* "Check for explicit port (colon separator)"
colon_rule(srv) ==
    LET sp == rsplit_once(srv, ":")
    IN  IF sp = None THEN None
        ELSE LET port == parse_u16(trim(sp[1][2]))
             IN  IF port = None THEN None ELSE Some(<<trim(sp[1][1]), port[1]>>)

\* variant: the split is made at the last backslash
named_instance_last(srv) ==
    LET sp == rsplit_once(srv, "\\")
    IN  IF sp = None THEN None ELSE Some(<<trim(sp[1][1]), trim(sp[1][2])>>)

\* "Check for named instance (backslash separator)": (host, instance)
named_instance(srv) ==
    LET sp == split_once(srv, "\\")
    IN  IF sp = None THEN None ELSE Some(<<trim(sp[1][1]), trim(sp[1][2])>>)

NoError == [kind |-> "none", arg |-> <<>>]
ParsedOk(h, p) == [kind |-> "Ok", host |-> h, port |-> p,
                   instance |-> <<>>, reason |-> NoError]

InitConn ==
    /\ entry \in {"create_client", "create_server_client"}
    /\ database = "none"
    /\ server \in ServerStrings
    /\ auth_type \in {"SqlServer", "Windows"}
    /\ windows \in BOOLEAN
    /\ net = <<>> /\ cpc = "parse"
    /\ host = <<>> /\ instance = <<>> /\ addr_idx = 0
    /\ timed_out = FALSE /\ invalid_response = FALSE /\ missing_port = FALSE
    /\ last_io_error = FALSE /\ attempts = <<>>
    /\ ssrp_result = [kind |-> "none", port |-> 0, arg |-> <<>>]
    /\ parsed = [kind |-> "none", host |-> <<>>, port |-> 0,
                 instance |-> <<>>, reason |-> NoError]
    /\ tcp_connects = 0 /\ client_result = "none"
    /\ LoadIdle
    /\ AuxIdle

\* parse_server_async up to its return or to the call of resolve_instance_port
ParseServer ==
    /\ cpc = "parse"
    /\ IF comma_rule(server) # None
       THEN /\ parsed' = ParsedOk(comma_rule(server)[1][1], comma_rule(server)[1][2])
            /\ cpc' = "auth" /\ UNCHANGED <<host, instance>>
       ELSE IF colon_rule(server) # None
       THEN /\ parsed' = ParsedOk(colon_rule(server)[1][1], colon_rule(server)[1][2])
            /\ cpc' = "auth" /\ UNCHANGED <<host, instance>>
       ELSE IF named_instance(server) # None
       THEN /\ host' = named_instance(server)[1][1]
            /\ instance' = named_instance(server)[1][2]
            /\ cpc' = "ssrp_resolve" /\ UNCHANGED parsed
       ELSE /\ parsed' = ParsedOk(server, DEFAULT_PORT)
            /\ cpc' = "auth" /\ UNCHANGED <<host, instance>>
    /\ UNCHANGED <<entry, database, server, auth_type, windows, net, addr_idx, timed_out,
                   invalid_response, missing_port, last_io_error, attempts,
                   ssrp_result, tcp_connects, client_result>>
    /\ UNCHANGED <<loadVars, auxVars>>

\* let browser_addrs = resolve_browser_addrs(host)?;
ResolveBrowserAddrs ==
    /\ cpc = "ssrp_resolve"
    /\ \E n \in Nets :
          /\ net' = n
          /\ IF n = <<>>
             THEN /\ ssrp_result' = SsrpErr("HostResolution", host)
                  /\ cpc' = "ssrp_done" /\ UNCHANGED addr_idx
             ELSE /\ addr_idx' = 1 /\ cpc' = "ssrp_try" /\ UNCHANGED ssrp_result
    /\ UNCHANGED <<entry, database, server, auth_type, windows, host, instance, timed_out,
                   invalid_response, missing_port, last_io_error, attempts,
                   parsed, tcp_connects, client_result>>
    /\ UNCHANGED <<loadVars, auxVars>>

\* variant: a timeout ends the loop instead of moving to the next address
TryAddress_timeout_returns ==
    /\ cpc = "ssrp_try"
    /\ addr_idx <= Len(net)
    /\ LET b == net[addr_idx]
           r == parse_ssrp_response(b.data, instance)
       IN  /\ attempts' = Append(attempts, Outcome(b, instance))
           /\ IF b.io \in {"bind_err", "send_err", "recv_err"}
              THEN /\ last_io_error' = TRUE /\ addr_idx' = addr_idx + 1
                   /\ UNCHANGED <<timed_out, invalid_response, missing_port,
                                  ssrp_result, cpc>>
              ELSE IF b.io = "timeout"
              THEN /\ timed_out' = TRUE
                   /\ ssrp_result' = SsrpErr("Timeout", <<>>) /\ cpc' = "ssrp_done"
                   /\ UNCHANGED <<addr_idx, last_io_error, invalid_response,
                                  missing_port>>
              ELSE IF r.kind = "Ok"
              THEN /\ ssrp_result' = r /\ cpc' = "ssrp_done"
                   /\ UNCHANGED <<addr_idx, last_io_error, timed_out,
                                  invalid_response, missing_port>>
              ELSE IF r.kind = "InvalidResponse"
              THEN /\ invalid_response' = TRUE /\ addr_idx' = addr_idx + 1
                   /\ UNCHANGED <<last_io_error, timed_out, missing_port,
                                  ssrp_result, cpc>>
              ELSE IF r.kind = "PortNotFound"
              THEN /\ missing_port' = TRUE /\ addr_idx' = addr_idx + 1
                   /\ UNCHANGED <<last_io_error, timed_out, invalid_response,
                                  ssrp_result, cpc>>
              ELSE /\ ssrp_result' = r /\ cpc' = "ssrp_done"
                   /\ UNCHANGED <<addr_idx, last_io_error, timed_out,
                                  invalid_response, missing_port>>
    /\ UNCHANGED <<entry, database, server, auth_type, windows, net, host, instance, parsed,
                   tcp_connects, client_result>>
    /\ UNCHANGED <<loadVars, auxVars>>

\* one iteration of `for browser_addr in browser_addrs`
TryAddress ==
    /\ cpc = "ssrp_try"
    /\ addr_idx <= Len(net)
    /\ LET b == net[addr_idx]
           r == parse_ssrp_response(b.data, instance)
       IN  /\ attempts' = Append(attempts, Outcome(b, instance))
           /\ IF b.io \in {"bind_err", "send_err", "recv_err"}
              THEN /\ last_io_error' = TRUE /\ addr_idx' = addr_idx + 1
                   /\ UNCHANGED <<timed_out, invalid_response, missing_port,
                                  ssrp_result, cpc>>
              ELSE IF b.io = "timeout"
              THEN /\ timed_out' = TRUE /\ addr_idx' = addr_idx + 1
                   /\ UNCHANGED <<last_io_error, invalid_response, missing_port,
                                  ssrp_result, cpc>>
              ELSE IF r.kind = "Ok"
              THEN /\ ssrp_result' = r /\ cpc' = "ssrp_done"
                   /\ UNCHANGED <<addr_idx, last_io_error, timed_out,
                                  invalid_response, missing_port>>
              ELSE IF r.kind = "InvalidResponse"
              THEN /\ invalid_response' = TRUE /\ addr_idx' = addr_idx + 1
                   /\ UNCHANGED <<last_io_error, timed_out, missing_port,
                                  ssrp_result, cpc>>
              ELSE IF r.kind = "PortNotFound"
              THEN /\ missing_port' = TRUE /\ addr_idx' = addr_idx + 1
                   /\ UNCHANGED <<last_io_error, timed_out, invalid_response,
                                  ssrp_result, cpc>>
              ELSE /\ ssrp_result' = r /\ cpc' = "ssrp_done"
                   /\ UNCHANGED <<addr_idx, last_io_error, timed_out,
                                  invalid_response, missing_port>>
    /\ UNCHANGED <<entry, database, server, auth_type, windows, net, host, instance, parsed,
                   tcp_connects, client_result>>
    /\ UNCHANGED <<loadVars, auxVars>>

\* the code after the loop of resolve_instance_port
AddressesExhausted ==
    /\ cpc = "ssrp_try"
    /\ addr_idx > Len(net)
    /\ ssrp_result' = final_error(missing_port, invalid_response, timed_out,
                                  last_io_error, host, instance)
    /\ cpc' = "ssrp_done"
    /\ UNCHANGED <<entry, database, server, auth_type, windows, net, host, instance, addr_idx,
                   timed_out, invalid_response, missing_port, last_io_error,
                   attempts, parsed, tcp_connects, client_result>>
    /\ UNCHANGED <<loadVars, auxVars>>

\* match resolve_instance_port(host, instance).await { ... }
ResumeParseServer ==
    /\ cpc = "ssrp_done"
    /\ parsed' = IF ssrp_result.kind = "Ok"
                 THEN ParsedOk(host, ssrp_result.port)
                 ELSE [kind |-> "InstanceResolution", host |-> host, port |-> 0,
                       instance |-> instance,
                       reason |-> [kind |-> ssrp_result.kind, arg |-> ssrp_result.arg]]
    /\ cpc' = "auth"
    /\ UNCHANGED <<entry, database, server, auth_type, windows, net, host, instance, addr_idx,
                   timed_out, invalid_response, missing_port, last_io_error,
                   attempts, ssrp_result, tcp_connects, client_result>>
    /\ UNCHANGED <<loadVars, auxVars>>

\* variant: Windows authentication is configured on every build
integrated_unsupported_never(auth, win) == FALSE

\* match params.auth_type: the AuthType::Windows arm under cfg(not(windows))
integrated_unsupported(auth, win) == auth = "Windows" /\ ~win

\* create_client / create_server_client from the `?` on parse_server_async to the TLS configuration
ConfigureClient ==
    /\ cpc = "auth"
    /\ IF parsed.kind # "Ok"
       THEN client_result' = "InstanceResolution" /\ cpc' = "done" /\ UNCHANGED database
       ELSE /\ database' = IF entry = "create_server_client" THEN "master" ELSE "params"
            /\ IF integrated_unsupported(auth_type, windows)
               THEN client_result' = "Auth" /\ cpc' = "done"
               ELSE cpc' = "tcp" /\ UNCHANGED client_result
    /\ UNCHANGED <<entry, server, auth_type, windows, net, host, instance, addr_idx,
                   timed_out, invalid_response, missing_port, last_io_error,
                   attempts, ssrp_result, parsed, tcp_connects>>
    /\ UNCHANGED <<loadVars, auxVars>>

\* let tcp = TcpStream::connect(config.get_addr()).await?; tcp.set_nodelay(true)?;
TcpConnect ==
    /\ cpc = "tcp"
    /\ tcp_connects' = tcp_connects + 1
    /\ \E connected \in BOOLEAN :
          IF connected THEN cpc' = "login" /\ UNCHANGED client_result
          ELSE client_result' = "Io" /\ cpc' = "done"
    /\ UNCHANGED <<entry, database, server, auth_type, windows, net, host, instance, addr_idx,
                   timed_out, invalid_response, missing_port, last_io_error,
                   attempts, ssrp_result, parsed>>
    /\ UNCHANGED <<loadVars, auxVars>>

\* let client = Client::connect(config, tcp.compat_write()).await?;
ClientConnect ==
    /\ cpc = "login"
    /\ \E logged_in \in BOOLEAN :
          client_result' = IF logged_in THEN "Ok" ELSE "Tiberius"
    /\ cpc' = "done"
    /\ UNCHANGED <<entry, database, server, auth_type, windows, net, host, instance, addr_idx,
                   timed_out, invalid_response, missing_port, last_io_error,
                   attempts, ssrp_result, parsed, tcp_connects>>
    /\ UNCHANGED <<loadVars, auxVars>>

NextConn ==
    \/ ParseServer
    \/ ResolveBrowserAddrs
    \/ TryAddress
    \/ AddressesExhausted
    \/ ResumeParseServer
    \/ ConfigureClient
    \/ TcpConnect
    \/ ClientConnect

SpecConn == InitConn /\ [][NextConn]_vars

-----------------------------------------------------------------------------
(* Properties of endpoint resolution                                        *)

\* precedence of the failure kinds of resolve_instance_port
Rank(kind) ==
    CASE kind = "PortNotFound" -> 5
      [] kind = "InvalidResponse" -> 4
      [] kind = "Timeout" -> 3
      [] kind = "Io" -> 2
      [] kind = "HostResolution" -> 1
      [] OTHER -> 0

\* the failure kinds the call has seen: one per address tried, or the failed lookup
Observed == Range(attempts) \cup (IF net = <<>> THEN {"HostResolution"} ELSE {})

\* resolve_instance_port has returned an error after trying every address
SsrpFailed ==
    /\ ssrp_result.kind \notin {"none", "Ok"}
    /\ Len(attempts) = Len(net)

\* C5: when every resolved address was tried and none gave a port, the error
\* returned is the observed failure kind of highest precedence
\* (PortNotFound > InvalidResponse > Timeout > Io > HostResolution).
C5_MostSpecificFailure ==
    SsrpFailed =>
        /\ ssrp_result.kind \in Observed
        /\ \A k \in Observed : Rank(k) <= Rank(ssrp_result.kind)

\* C5 witness: the higher-ranked failure came first and was retained
C5_Witness ==
    /\ SsrpFailed
    /\ attempts = <<"InvalidResponse", "Io">>
    /\ ssrp_result.kind = "InvalidResponse"

\* parse_server_async took the named-instance branch and has returned
NamedInstanceParsed ==
    /\ parsed.kind # "none"
    /\ comma_rule(server) = None /\ colon_rule(server) = None
    /\ split_once(server, "\\") # None

-----------------------------------------------------------------------------
(* Properties of the endpoint parser                                        *)

\* parse_server_async has chosen its rule
RuleChosen == cpc \notin {"idle", "parse"}

\* the text parses, after trimming, as a TCP port 1..65535
IsPort(text) ==
    /\ parse_u16(trim(text)) # None
    /\ parse_u16(trim(text))[1] \in 1..65535

\* no SSRP lookup has been made
NoSsrpLookup == net = <<>> /\ attempts = <<>> /\ ssrp_result.kind = "none"

\* C11: the comma rule applies exactly when the server string contains ','
\* and the text after the first ',' is a port 1..65535; it then returns the
\* trimmed text before the first ',' with that port and makes no SSRP lookup;
\* with any other text after the ',' the endpoint is not the comma split.
C11_CommaRule ==
    RuleChosen /\ split_once(server, ",") # None =>
        LET left == split_once(server, ",")[1][1]
            suffix == split_once(server, ",")[1][2]
        IN  IF IsPort(suffix)
            THEN /\ parsed = ParsedOk(trim(left), parse_u16(trim(suffix))[1])
                 /\ NoSsrpLookup
            ELSE ~(/\ parsed.kind = "Ok"
                   /\ parsed.host = trim(left)
                   /\ parse_u16(trim(suffix)) = Some(parsed.port))

\* the comma rule as the specification states it
CommaApplies ==
    /\ split_once(server, ",") # None
    /\ IsPort(split_once(server, ",")[1][2])

\* the colon rule as the specification states it
ColonApplies ==
    /\ rsplit_once(server, ":") # None
    /\ IsPort(rsplit_once(server, ":")[1][2])

\* C12: when the comma rule does not apply and the text after the last ':'
\* is a port, the result is the trimmed text before the last ':' with that
\* port; when both rules apply the comma rule wins; a string to which no
\* ',' ':' or backslash rule applies is returned unchanged with port 1433.
C12_ColonRule ==
    RuleChosen =>
        LET left == rsplit_once(server, ":")[1][1]
            suffix == rsplit_once(server, ":")[1][2]
        IN  /\ ~CommaApplies /\ ColonApplies =>
                  /\ parsed = ParsedOk(trim(left), parse_u16(trim(suffix))[1])
                  /\ NoSsrpLookup
            /\ CommaApplies /\ ColonApplies =>
                  parsed.host = trim(split_once(server, ",")[1][1])
            /\ ~CommaApplies /\ ~ColonApplies /\ split_once(server, "\\") = None =>
                  parsed = ParsedOk(server, DEFAULT_PORT)

-----------------------------------------------------------------------------
(* Properties of the connection factory                                     *)

\* a request with Windows authentication on a build that does not target Windows
IntegratedOffWindows == cpc # "idle" /\ auth_type = "Windows" /\ ~windows

\* C13: on a non-Windows host a request with Windows authentication, through
\* create_client or create_server_client, fails with Auth and never opens a
\* TCP socket.
C13_IntegratedFailsWithAuth ==
    IntegratedOffWindows =>
        /\ tcp_connects = 0 /\ cpc \notin {"tcp", "login"}
        /\ cpc = "done" => client_result = "Auth"

\* C13 amended: the request never opens a TCP socket; it fails with Auth when
\* the endpoint was resolved, and with InstanceResolution when it was not.
C13_IntegratedFailsBeforeTcp ==
    IntegratedOffWindows =>
        /\ tcp_connects = 0 /\ cpc \notin {"tcp", "login"}
        /\ cpc = "done" =>
              /\ parsed.kind = "Ok" => client_result = "Auth"
              /\ parsed.kind # "Ok" => client_result = "InstanceResolution"

\* C13 witness: create_server_client returned Auth after SSRP gave the port
C13_Witness ==
    /\ IntegratedOffWindows /\ cpc = "done"
    /\ entry = "create_server_client" /\ database = "master"
    /\ ssrp_result.kind = "Ok"
    /\ client_result = "Auth" /\ tcp_connects = 0

-----------------------------------------------------------------------------
(* Properties of the load_schema command                                    *)

\* C14: once the caller has dropped load_schema, no further catalog query is
\* issued on the session and no graph is delivered.
C14_DropCancelsLoad ==
    dropped >= 0 =>
        /\ Len(issued) = dropped
        /\ delivered = "none"

-----------------------------------------------------------------------------
(* Properties of the use of the session                                     *)

\* the queries whose result set is open after the first k events of the log
OpenAfter(k) ==
    {q \in {cursor_log[i][2] : i \in 1..k} :
        \E i \in 1..k :
            /\ cursor_log[i] = <<"open", q>>
            /\ \A j \in (i + 1)..k : cursor_log[j] # <<"close", q>>}

\* C15: at every moment of a load at most one query has an open result set,
\* and every result set is closed (consumed or abandoned) before the next
\* catalog query is issued.
C15_QueriesSerialised ==
    /\ \A k \in 0..Len(cursor_log) : Cardinality(OpenAfter(k)) <= 1
    /\ \A k \in 1..Len(cursor_log) :
          cursor_log[k][1] = "open" => OpenAfter(k - 1) = {}
    /\ OpenAfter(Len(cursor_log)) = {}

\* C15 witness: a load that went through all seven queries, the last of them
\* abandoned at its first row
C15_Witness ==
    /\ pc = "done"
    /\ Len(issued) = 7 /\ Len(cursor_log) = 14
    /\ failed = [query |-> "funcs", at |-> 1]

-----------------------------------------------------------------------------
(* Properties of extract_table_references                                   *)

\* the identifiers that stand right after the keywords kws in the definition
CapturedAfter(kws, definition) ==
    {definition[i + Len(kws)] :
        i \in {i \in 1..(Len(definition) - Len(kws)) :
                 /\ \A j \in 1..Len(kws) : definition[i + j - 1].kw = kws[j]
                 /\ definition[i + Len(kws)].kw # "PUNCT"}}

\* the ids of the captured identifiers that the name index knows
Resolved(caps, idx) ==
    {idx[lookup_key(c)] : c \in {c \in caps : lookup_key(c) \in DOMAIN idx}}

ReadIds(definition, idx) ==
    Resolved(CapturedAfter(<<"FROM">>, definition), idx)
    \cup Resolved(CapturedAfter(<<"JOIN">>, definition), idx)

WriteIds(definition, idx) ==
    Resolved(CapturedAfter(<<"INSERT", "INTO">>, definition), idx)
    \cup Resolved(CapturedAfter(<<"UPDATE">>, definition), idx)
    \cup Resolved(CapturedAfter(<<"DELETE", "FROM">>, definition), idx)

NoDuplicates(s) == Cardinality(Range(s)) = Len(s)

\* the triggers, procedures and functions loaded so far
Routines == Range(triggers) \cup Range(stored_procedures) \cup Range(scalar_functions)

\* load_views_with_references has run
ViewsReferenced ==
    pc \in {"fks", "triggers", "procs", "funcs", "return"} \/ (pc = "done" /\ Len(issued) >= 4)

\* C16: the read set holds exactly the resolved identifiers captured after
\* FROM or JOIN, the write set exactly those captured after INSERT INTO,
\* UPDATE or DELETE FROM; a resolved DELETE FROM target is in both sets,
\* neither set has duplicates, and an empty definition gives two empty sets.
C16_ReadAndWriteSets ==
    /\ \A o \in Routines :
          /\ Range(o.referenced_tables) = ReadIds(o.definition, name_to_id)
          /\ Range(o.affected_tables) = WriteIds(o.definition, name_to_id)
          /\ NoDuplicates(o.referenced_tables) /\ NoDuplicates(o.affected_tables)
          /\ Resolved(CapturedAfter(<<"DELETE", "FROM">>, o.definition), name_to_id)
                \subseteq Range(o.referenced_tables) \cap Range(o.affected_tables)
          /\ o.definition = <<>> => o.referenced_tables = <<>> /\ o.affected_tables = <<>>
    /\ ViewsReferenced =>
          \A v \in Range(views) :
              /\ Range(v.referenced_tables) = ReadIds(v.definition, name_to_id)
              /\ NoDuplicates(v.referenced_tables)

\* C16 witness: for INSERT INTO r.T SELECT .. FROM s.T; DELETE FROM s.T the
\* read set is {s.T} and the write set {r.T, s.T}; the plain INSERT INTO
\* target r.T is only written
C16_Witness ==
    /\ Returned
    /\ \E i \in 1..Len(result.graph.stored_procedures) :
          LET p == result.graph.stored_procedures[i]
          IN  /\ p.referenced_tables = << <<"s", ".", "T">> >>
              /\ p.affected_tables = << <<"s", ".", "T">>, <<"r", ".", "T">> >>

-----------------------------------------------------------------------------
(* Properties of the grouping of rows into entities                         *)

\* the names of a list of columns or parameters
Names(items) == [i \in 1..Len(items) |-> items[i].name]

\* the entities of a catalog list that the queries select
Selected(objs) == {objs[i] : i \in {i \in 1..Len(objs) : ~objs[i].is_ms_shipped}}

\* the list holds one node per selected entity, with the entity's members in
\* catalog order
GroupedInOrder(nodes, objs, MembersOf(_), Expected(_)) ==
    /\ Len(nodes) = Cardinality(Selected(objs))
    /\ \A e \in Selected(objs) :
          \E i \in 1..Len(nodes) :
              /\ nodes[i].schema = e.schema /\ nodes[i].name = e.name
              /\ Names(MembersOf(nodes[i])) = Expected(e)

\* C17: in a returned graph every table, view, stored procedure and scalar
\* function of the catalog appears once, with its columns (parameters) in the
\* order of its rows in the query result.
C17_MembersInCatalogOrder ==
    Returned =>
        /\ GroupedInOrder(result.graph.tables, catalog.tables,
                          LAMBDA n : n.columns, LAMBDA e : Names(e.columns))
        /\ GroupedInOrder(result.graph.views, catalog.views,
                          LAMBDA n : n.columns, LAMBDA e : e.columns)
        /\ GroupedInOrder(result.graph.stored_procedures, catalog.procedures,
                          LAMBDA n : n.parameters, LAMBDA e : Names(e.parameters))
        /\ GroupedInOrder(result.graph.scalar_functions, catalog.functions,
                          LAMBDA n : n.parameters, LAMBDA e : Names(e.parameters))

\* ---------------------------------------------------------------------------
\* Unreadable cells (SpecCells)

Unread(q, k, col) == [query |-> q, row |-> k, col |-> col] \in unreadable

\* the loader of query q has run and returned Ok
LoaderReturnedOk(q) ==
    /\ \E i \in 1..Len(issued) : issued[i] = q
    /\ failed.query # q

\* the value a text cell leaves in the graph: its text, or "" when unreadable
TextOrDefault(q, k, col) ==
    IF Unread(q, k, col) THEN <<>> ELSE QueryRows(q, catalog)[k][col]

\* the value a bit cell leaves in the graph: its value, or false when unreadable
BitOrDefault(q, k, col) ==
    IF Unread(q, k, col) THEN FALSE ELSE QueryRows(q, catalog)[k][col] = <<"1">>

\* the rows of query q that belong to the object of row k
RowsOfObject(q, k, nameCol) ==
    LET rows == QueryRows(q, catalog)
    IN  {j \in 1..Len(rows) :
            /\ rows[j].schema_name = rows[k].schema_name
            /\ rows[j][nameCol] = rows[k][nameCol]}

FirstRowOf(q, k, nameCol) ==
    CHOOSE j \in RowsOfObject(q, k, nameCol) :
        \A x \in RowsOfObject(q, k, nameCol) : j <= x

\* the parameters the rows of the object of row k leave, in row order
ExpectedParameters(q, k, nameCol) ==
    LET rows == QueryRows(q, catalog)
        pushed == SelectSeq([j \in 1..Len(rows) |-> j],
                            LAMBDA j : /\ j \in RowsOfObject(q, k, nameCol)
                                       /\ TextOrDefault(q, j, "parameter_name") # <<>>)
    IN  [x \in 1..Len(pushed) |->
            [name |-> TextOrDefault(q, pushed[x], "parameter_name"),
             data_type |-> TextOrDefault(q, pushed[x], "parameter_type"),
             is_output |-> BitOrDefault(q, pushed[x], "is_output")]]

\* the row k of a routine query was processed with defaults for its unreadable cells
RoutineRowProcessed(q, k, nameCol, defCol, nodes) ==
    LET r == QueryRows(q, catalog)[k]
        first == FirstRowOf(q, k, nameCol)
    IN  \E i \in 1..Len(nodes) :
           /\ nodes[i].id = format_id(r.schema_name, r[nameCol])
           /\ nodes[i].definition = TextOrDefault(q, first, defCol)
           /\ nodes[i].parameters = ExpectedParameters(q, k, nameCol)
           /\ q = "funcs" => nodes[i].return_type = TextOrDefault(q, first, "return_type")

OptionalDefaulted(c) ==
    LET r == QueryRows(c.query, catalog)[c.row]
    IN  CASE c.query = "views" ->
                 \E i \in 1..Len(views) :
                    /\ views[i].id = format_id(r.schema_name, r.view_name)
                    /\ \E k \in 1..Len(views[i].columns) :
                          views[i].columns[k].name = r.column_name
                    /\ views[i].definition =
                          TextOrDefault("views", FirstRowOf("views", c.row, "view_name"),
                                        "view_definition")
          [] c.query = "triggers" ->
                 /\ Len(triggers) = Len(QueryRows("triggers", catalog))
                 /\ triggers[c.row].name = r.trigger_name
                 /\ triggers[c.row].definition = <<>>
          [] c.query = "procs" ->
                 RoutineRowProcessed("procs", c.row, "procedure_name",
                                     "procedure_definition", stored_procedures)
          [] c.query = "funcs" ->
                 RoutineRowProcessed("funcs", c.row, "function_name",
                                     "function_definition", scalar_functions)

RequiredPropagated(c) ==
    /\ result.kind = "err" /\ result.graph = <<>>
    /\ failed.query = c.query => failed.at \in {-1} \cup (1..c.row)
    /\ failed.query # c.query =>
          \E i \in 1..Len(issued) : issued[i] = failed.query /\
                                    \E j \in (i + 1)..Len(issued) : issued[j] = c.query

\* C18: an unreadable optional column (definition, parameter name, parameter
\* type, is_output, return type) is replaced by "" or false and its row is
\* still processed; an unreadable required column makes the loader return an
\* error, which ends the load with no graph
C18_OptionalDefaultsRequiredFails ==
    \A c \in unreadable :
       /\ (c.col \in OptionalColumns(c.query) /\ LoaderReturnedOk(c.query))
             => OptionalDefaulted(c)
       /\ (c.col \in RequiredColumns(c.query)
             /\ \E i \in 1..Len(issued) : issued[i] = c.query)
             => RequiredPropagated(c)

\* the is_output cell of the OUTPUT parameter @b is unreadable, the load has
\* returned its graph, and s.P has both parameters
C18_Witness ==
    /\ result.kind = "ok"
    /\ \E c \in unreadable :
          /\ c.query = "procs" /\ c.col = "is_output"
          /\ QueryRows("procs", catalog)[c.row].is_output = <<"1">>
          /\ \E i \in 1..Len(stored_procedures) :
                /\ Len(stored_procedures[i].parameters) = 2
                /\ ~stored_procedures[i].parameters[2].is_output

\* a required cell is unreadable and the load has ended with its error
C18_RequiredReached ==
    /\ pc = "done"
    /\ \E c \in unreadable :
          /\ c.col \in RequiredColumns(c.query)
          /\ failed = [query |-> c.query, at |-> c.row]

\* ---------------------------------------------------------------------------
\* SSRP responses (SpecConn)

\* the datagram the i-th attempt received, <<>> when it received none
Received(i) == IF net[i].io = "data" THEN net[i].data ELSE <<>>

GotData(i) == i \in 1..Len(attempts) /\ net[i].io = "data"

\* C19: a response whose first byte is not 0x05 or that has 3 bytes or fewer
\* (a bare header included) is answered with InvalidResponse
C19_ShortOrBadHeaderInvalid ==
    \A i \in 1..Len(attempts) :
       (GotData(i) /\ (Len(Received(i)) <= 3 \/ Received(i)[1] # 5))
          => attempts[i] = "InvalidResponse"

\* the part of C19 the code keeps: fewer than 3 bytes, or a first byte that
\* is not 0x05
C19_ShorterThanHeaderInvalid ==
    \A i \in 1..Len(attempts) :
       (GotData(i) /\ (Len(Received(i)) < 3 \/ Received(i)[1] # 5))
          => attempts[i] = "InvalidResponse"

\* the tokens of the payload of a datagram with a valid header
Tokens(data) == split([i \in 1..(Len(data) - 3) |-> CharOf(data[i + 3])], ";")

IsTcp(tok) == to_lowercase(tok) = <<"t", "c", "p">>

TcpTokens(data) == {k \in 1..Len(Tokens(data)) : IsTcp(Tokens(data)[k])}

ValidHeader(i) == GotData(i) /\ Len(Received(i)) >= 3 /\ Received(i)[1] = 5

\* C20: with a valid header the first token equal to "tcp" (any case) decides:
\* the attempt returns the port parsed from the token right after it, whatever
\* follows a later "tcp"; without a "tcp" token the attempt is PortNotFound.
\* A first "tcp" that is the last token has no pair and is PortNotFound too; a
\* token after it that is not a port is InvalidResponse.
C20_FirstTcpDecides ==
    \A i \in 1..Len(attempts) :
       ValidHeader(i) =>
          LET parts == Tokens(Received(i))
              tcp == TcpTokens(Received(i))
              first == CHOOSE k \in tcp : \A j \in tcp : k <= j
          IN  IF tcp = {} THEN attempts[i] = "PortNotFound"
              ELSE IF first = Len(parts) THEN attempts[i] = "PortNotFound"
              ELSE IF parse_u16(parts[first + 1]) = None
                   THEN attempts[i] = "InvalidResponse"
              ELSE /\ attempts[i] = "Ok"
                   /\ ssrp_result = SsrpOk(parse_u16(parts[first + 1])[1])

\* a payload "tcp;7;Tcp;0" was received and the lookup returned port 7
C20_Witness ==
    \E i \in 1..Len(attempts) :
       /\ ValidHeader(i)
       /\ Cardinality(TcpTokens(Received(i))) = 2
       /\ attempts[i] = "Ok"
       /\ ssrp_result = SsrpOk(7)

-----------------------------------------------------------------------------
(* Column type formatting: db/queries.rs, format_data_type *)

RECURSIVE DecimalDigits(_)
\* the decimal digits of a natural number
DecimalDigits(n) ==
    LET digit == CASE n % 10 = 0 -> "0" [] n % 10 = 1 -> "1" [] n % 10 = 2 -> "2"
                   [] n % 10 = 3 -> "3" [] n % 10 = 4 -> "4" [] n % 10 = 5 -> "5"
                   [] n % 10 = 6 -> "6" [] n % 10 = 7 -> "7" [] n % 10 = 8 -> "8"
                   [] n % 10 = 9 -> "9"
    IN  IF n < 10 THEN <<digit>> ELSE Append(DecimalDigits(n \div 10), digit)

\* Display of an integer, as format!("{}", n) writes it
Display(n) == IF n < 0 THEN <<"-">> \o DecimalDigits(-n) ELSE DecimalDigits(n)

\* variant: the byte length is written as it is
chars_of_bytes_unhalved(n) == n

\* `max_length / 2` on i16: the quotient is truncated toward zero
chars_of_bytes(n) == IF n < 0 THEN -((-n) \div 2) ELSE n \div 2

\* format!("{}(max)", type_name); the type name is kept as one piece of text
WithMax(t) == <<t, "(", "m", "a", "x", ")">>

\* format!("{}({})", type_name, n)
WithNumber(t, n) == <<t, "(">> \o Display(n) \o <<")">>

format_data_type(t, len, prec, sc) ==
    CASE t \in {"varchar", "char", "nchar"} ->
             IF len = -1 THEN WithMax(t) ELSE WithNumber(t, len)
      [] t = "nvarchar" ->
             IF len = -1 THEN WithMax(t) ELSE WithNumber(t, chars_of_bytes(len))
      [] t \in {"decimal", "numeric"} ->
             <<t, "(">> \o Display(prec) \o <<",">> \o Display(sc) \o <<")">>
      [] t = "float" ->
             IF prec > 0 /\ prec # 53 THEN WithNumber("float", prec) ELSE <<"float">>
      [] t \in {"datetime2", "datetimeoffset", "time"} ->
             IF sc > 0 /\ sc # 7 THEN WithNumber(t, sc) ELSE <<t>>
      [] t \in {"varbinary", "binary"} ->
             IF len = -1 THEN WithMax(t) ELSE WithNumber(t, len)
      [] OTHER -> <<t>>

\* type names handed to format_data_type: every arm of the match, and names
\* that fall through to the last arm
TypeNames ==
    {"varchar", "char", "nchar", "nvarchar", "decimal", "numeric", "float",
     "datetime2", "datetimeoffset", "time", "varbinary", "binary",
     "int", "VARCHAR", "datetime", "text", ""}

\* i16 lengths: the extremes, -1, odd and even, negative and positive
MaxLengths == {-32768, -3, -2, -1, 0, 1, 2, 7, 200, 201, 8000, 32767}

\* u8 values
SmallU8 == (0..MaxScale) \cup {53, 255}

InitFormat ==
    /\ type_name \in TypeNames
    /\ max_length \in MaxLengths
    /\ precision \in {0, 18, 53, 255}
    /\ scale \in SmallU8
    /\ formatted = <<>>
    /\ LoadIdle /\ ConnIdle /\ MockIdle /\ StoreIdle

FormatDataType ==
    /\ formatted = <<>>
    /\ formatted' = format_data_type(type_name, max_length, precision, scale)
    /\ UNCHANGED <<type_name, max_length, precision, scale>>
    /\ UNCHANGED exceptFmt

NextFormat == FormatDataType

SpecFormat == InitFormat /\ [][NextFormat]_vars

\* C21: for datetime2, datetimeoffset and time the result is "<t>(<scale>)"
\* for every scale other than 7, scale 0 included, and "<t>" for scale 7,
\* whatever max_length and precision are
C21_ScaleShownUnlessSeven ==
    (formatted # <<>> /\ type_name \in {"datetime2", "datetimeoffset", "time"}) =>
        formatted = IF scale = 7 THEN <<type_name>>
                    ELSE <<type_name, "(">> \o Display(scale) \o <<")">>

\* what the code does: scale 0 is written as the bare name as well
C21_ScaleShownUnlessZeroOrSeven ==
    (formatted # <<>> /\ type_name \in {"datetime2", "datetimeoffset", "time"}) =>
        formatted = IF scale \in {0, 7} THEN <<type_name>>
                    ELSE <<type_name, "(">> \o Display(scale) \o <<")">>

LengthTypes == {"varchar", "char", "nchar", "varbinary", "binary", "nvarchar"}

FormatFamilies ==
    LengthTypes \cup {"decimal", "numeric", "float", "datetime2", "datetimeoffset", "time"}

\* n is max_length / 2 with the remainder dropped
IsHalf(n, len) ==
    \/ len >= 0 /\ (len = 2 * n \/ len = 2 * n + 1)
    \/ len < 0 /\ (len = 2 * n \/ len = 2 * n - 1)

\* C22: a length-carrying type is written "<t>(max)" for max_length = -1 and
\* "<t>(<n>)" otherwise, n being max_length, or max_length / 2 for nvarchar; a
\* type name outside the families of format_data_type is returned unchanged
C22_LengthTypes ==
    formatted # <<>> =>
        /\ (type_name \in LengthTypes /\ max_length = -1) =>
              formatted = <<type_name, "(", "m", "a", "x", ")">>
        /\ (type_name \in LengthTypes \ {"nvarchar"} /\ max_length # -1) =>
              formatted = <<type_name, "(">> \o Display(max_length) \o <<")">>
        /\ (type_name = "nvarchar" /\ max_length # -1) =>
              \E n \in -16384..16383 :
                 /\ IsHalf(n, max_length)
                 /\ formatted = <<type_name, "(">> \o Display(n) \o <<")">>
        /\ type_name \notin FormatFamilies => formatted = <<type_name>>

\* format_data_type("nvarchar", 201, _, _) has returned "nvarchar(100)"
C22_Witness ==
    /\ type_name = "nvarchar" /\ max_length = 201
    /\ formatted = <<"nvarchar", "(", "1", "0", "0", ")">>

-----------------------------------------------------------------------------
(* Mock graph generator: commands/mock.rs *)

\* MockConfig::from_size
from_size(sz) ==
    CASE sz = "medium" -> [tables |-> 100, views |-> 20, relationships |-> 150,
                           triggers |-> 30, procedures |-> 20, functions |-> 20]
      [] sz = "large" -> [tables |-> 500, views |-> 50, relationships |-> 750,
                          triggers |-> 100, procedures |-> 50, functions |-> 50]
      [] sz = "stress" -> [tables |-> 2000, views |-> 200, relationships |-> 3000,
                           triggers |-> 300, procedures |-> 150, functions |-> 150]
      [] OTHER -> [tables |-> 10, views |-> 3, relationships |-> 15,
                   triggers |-> 5, procedures |-> 5, functions |-> 5]

SCHEMAS ==
    << <<"d", "b", "o">>,
       <<"s", "a", "l", "e", "s">>,
       <<"i", "n", "v", "e", "n", "t", "o", "r", "y">>,
       <<"h", "r">> >>

TABLE_PREFIXES ==
    << <<"C", "u", "s", "t", "o", "m", "e", "r">>,
       <<"O", "r", "d", "e", "r">>,
       <<"P", "r", "o", "d", "u", "c", "t">>,
       <<"C", "a", "t", "e", "g", "o", "r", "y">>,
       <<"E", "m", "p", "l", "o", "y", "e", "e">>,
       <<"D", "e", "p", "a", "r", "t", "m", "e", "n", "t">>,
       <<"I", "n", "v", "o", "i", "c", "e">>,
       <<"P", "a", "y", "m", "e", "n", "t">>,
       <<"S", "h", "i", "p", "m", "e", "n", "t">>,
       <<"S", "u", "p", "p", "l", "i", "e", "r">>,
       <<"W", "a", "r", "e", "h", "o", "u", "s", "e">>,
       <<"S", "t", "o", "c", "k">>,
       <<"A", "c", "c", "o", "u", "n", "t">>,
       <<"T", "r", "a", "n", "s", "a", "c", "t", "i", "o", "n">>,
       <<"R", "e", "p", "o", "r", "t">>,
       <<"L", "o", "g">>,
       <<"A", "u", "d", "i", "t">>,
       <<"C", "o", "n", "f", "i", "g">>,
       <<"S", "e", "t", "t", "i", "n", "g">>,
       <<"U", "s", "e", "r">> >>

TABLE_SUFFIXES ==
    << <<>>,
       <<"s">>,
       <<"D", "e", "t", "a", "i", "l">>,
       <<"H", "i", "s", "t", "o", "r", "y">>,
       <<"A", "r", "c", "h", "i", "v", "e">>,
       <<"T", "e", "m", "p">>,
       <<"B", "a", "c", "k", "u", "p">>,
       <<"M", "a", "s", "t", "e", "r">>,
       <<"R", "e", "f">>,
       <<"L", "o", "o", "k", "u", "p">> >>

COLUMN_NAMES ==
    << <<"I", "d">>,
       <<"N", "a", "m", "e">>,
       <<"D", "e", "s", "c", "r", "i", "p", "t", "i", "o", "n">>,
       <<"S", "t", "a", "t", "u", "s">>,
       <<"T", "y", "p", "e">>,
       <<"C", "o", "d", "e">>,
       <<"V", "a", "l", "u", "e">>,
       <<"A", "m", "o", "u", "n", "t">>,
       <<"Q", "u", "a", "n", "t", "i", "t", "y">>,
       <<"P", "r", "i", "c", "e">>,
       <<"D", "a", "t", "e">>,
       <<"C", "r", "e", "a", "t", "e", "d", "A", "t">>,
       <<"U", "p", "d", "a", "t", "e", "d", "A", "t">>,
       <<"D", "e", "l", "e", "t", "e", "d", "A", "t">>,
       <<"I", "s", "A", "c", "t", "i", "v", "e">>,
       <<"I", "s", "D", "e", "l", "e", "t", "e", "d">>,
       <<"P", "r", "i", "o", "r", "i", "t", "y">>,
       <<"S", "e", "q", "u", "e", "n", "c", "e">>,
       <<"N", "o", "t", "e", "s">>,
       <<"C", "o", "m", "m", "e", "n", "t", "s">>,
       <<"E", "m", "a", "i", "l">>,
       <<"P", "h", "o", "n", "e">>,
       <<"A", "d", "d", "r", "e", "s", "s">>,
       <<"C", "i", "t", "y">>,
       <<"C", "o", "u", "n", "t", "r", "y">>,
       <<"P", "o", "s", "t", "a", "l", "C", "o", "d", "e">>,
       <<"R", "a", "t", "i", "n", "g">>,
       <<"S", "c", "o", "r", "e">>,
       <<"L", "e", "v", "e", "l">>,
       <<"V", "e", "r", "s", "i", "o", "n">> >>

DATA_TYPES ==
    << <<"i", "n", "t">>,
       <<"b", "i", "g", "i", "n", "t">>,
       <<"n", "v", "a", "r", "c", "h", "a", "r", "(", "1", "0", "0", ")">>,
       <<"n", "v", "a", "r", "c", "h", "a", "r", "(", "2", "5", "5", ")">>,
       <<"d", "e", "c", "i", "m", "a", "l", "(", "1", "8", ",", "2", ")">>,
       <<"d", "a", "t", "e", "t", "i", "m", "e", "2">>,
       <<"b", "i", "t">>,
       <<"u", "n", "i", "q", "u", "e", "i", "d", "e", "n", "t", "i", "f", "i", "e", "r">>,
       <<"f", "l", "o", "a", "t">>,
       <<"n", "v", "a", "r", "c", "h", "a", "r", "(", "m", "a", "x", ")">> >>

trigger_types ==
    << <<"A", "F", "T", "E", "R">>,
       <<"I", "N", "S", "T", "E", "A", "D", " ", "O", "F">> >>

proc_prefixes ==
    << <<"G", "e", "t">>,
       <<"U", "p", "d", "a", "t", "e">>,
       <<"D", "e", "l", "e", "t", "e">>,
       <<"I", "n", "s", "e", "r", "t">>,
       <<"C", "a", "l", "c", "u", "l", "a", "t", "e">>,
       <<"P", "r", "o", "c", "e", "s", "s">>,
       <<"V", "a", "l", "i", "d", "a", "t", "e">> >>

fn_prefixes ==
    << <<"f", "n", "_", "G", "e", "t">>,
       <<"f", "n", "_", "C", "a", "l", "c", "u", "l", "a", "t", "e">>,
       <<"f", "n", "_", "F", "o", "r", "m", "a", "t">>,
       <<"f", "n", "_", "V", "a", "l", "i", "d", "a", "t", "e">>,
       <<"f", "n", "_", "C", "o", "n", "v", "e", "r", "t">> >>

return_types ==
    << <<"i", "n", "t">>,
       <<"d", "e", "c", "i", "m", "a", "l", "(", "1", "8", ",", "2", ")">>,
       <<"n", "v", "a", "r", "c", "h", "a", "r", "(", "1", "0", "0", ")">>,
       <<"b", "i", "t">>,
       <<"d", "a", "t", "e", "t", "i", "m", "e", "2">> >>


MIN_COLUMNS == 5
MAX_COLUMNS == 300
WIDE_COLUMN_TIERS == <<100, 150, 200, 250, 300>>
TABLE_COLUMN_SEED == 200
VIEW_COLUMN_SEED == 400

\* arr[idx] with the zero-based index of the source
At(a, idx) == a[idx + 1]

IdText ==
    <<"I", "d">>

IntText ==
    <<"i", "n", "t">>

FkText ==
    <<"F", "K", "_">>

VwReportText ==
    <<"v", "w", "_", "R", "e", "p", "o", "r", "t">>

TrText ==
    <<"T", "R", "_">>

DataText ==
    <<"D", "a", "t", "a">>

ValueText ==
    <<"V", "a", "l", "u", "e">>

UnknownText ==
    <<"u", "n", "k", "n", "o", "w", "n">>

CreateViewText ==
    <<"C", "R", "E", "A", "T", "E", " ", "V", "I", "E", "W", " ">>

AsSelectText ==
    <<" ", "A", "S", "\n", "S", "E", "L", "E", "C", "T", " ", "*", " ", "F",
    "R", "O", "M", " ">>

MockViewText ==
    <<" ", "-", "-", " ", "M", "o", "c", "k", " ", "v", "i", "e", "w">>

CreateTriggerText ==
    <<"C", "R", "E", "A", "T", "E", " ", "T", "R", "I", "G", "G", "E", "R",
    " ">>

OnText ==
    <<" ", "O", "N", " ">>

MockTriggerText ==
    <<" ", "-", "-", " ", "M", "o", "c", "k", " ", "t", "r", "i", "g", "g",
    "e", "r", " ">>

CreateProcedureText ==
    <<"C", "R", "E", "A", "T", "E", " ", "P", "R", "O", "C", "E", "D", "U",
    "R", "E", " ">>

MockProcedureText ==
    <<" ", "-", "-", " ", "M", "o", "c", "k", " ", "p", "r", "o", "c", "e",
    "d", "u", "r", "e", " ">>

CreateFunctionText ==
    <<"C", "R", "E", "A", "T", "E", " ", "F", "U", "N", "C", "T", "I", "O",
    "N", " ">>

MockFunctionText ==
    <<" ", "-", "-", " ", "M", "o", "c", "k", " ", "f", "u", "n", "c", "t",
    "i", "o", "n", " ">>

SqlStoredProcedureText ==
    <<"S", "Q", "L", "_", "S", "T", "O", "R", "E", "D", "_", "P", "R", "O",
    "C", "E", "D", "U", "R", "E">>

SqlScalarFunctionText ==
    <<"S", "Q", "L", "_", "S", "C", "A", "L", "A", "R", "_", "F", "U", "N",
    "C", "T", "I", "O", "N">>

TriggerEdgeText ==
    <<"t", "r", "i", "g", "g", "e", "r", "-", "e", "d", "g", "e", "-">>

TriggerRefEdgeText ==
    <<"t", "r", "i", "g", "g", "e", "r", "-", "r", "e", "f", "-", "e", "d",
    "g", "e", "-">>

TriggerAffectsText ==
    <<"t", "r", "i", "g", "g", "e", "r", "-", "a", "f", "f", "e", "c", "t",
    "s", "-">>

ProcEdgeText ==
    <<"p", "r", "o", "c", "-", "e", "d", "g", "e", "-">>

ProcAffectsText ==
    <<"p", "r", "o", "c", "-", "a", "f", "f", "e", "c", "t", "s", "-">>

FuncEdgeText ==
    <<"f", "u", "n", "c", "-", "e", "d", "g", "e", "-">>

\* exclusive or of two 4-bit values
Xor4 ==
    [a \in 0..15 |-> [b \in 0..15 |->
        LET bit(n, k) == (n \div k) % 2
            x1(k) == IF bit(a, k) # bit(b, k) THEN k ELSE 0
        IN  x1(1) + x1(2) + x1(4) + x1(8)]]

\* exclusive or of two bytes
Xor8(a, b) == 16 * Xor4[a \div 16][b \div 16] + Xor4[a % 16][b % 16]

\* variant: the hash also depends on how many graphs were returned before
simple_hash_salted(seed, index) ==
    LET n == seed + index + Len(returned)
        w == usize_bits \div 8
        a1 == n % 256
        a2 == (n \div 256) % 256
        a3 == (n \div 65536) % 256
        a4 == n \div 16777216
        t1 == a1 * 177
        t2 == a1 * 121 + a2 * 177 + t1 \div 256
        t3 == a1 * 55 + a2 * 121 + a3 * 177 + t2 \div 256
        t4 == a1 * 158 + a2 * 55 + a3 * 121 + a4 * 177 + t3 \div 256
        t5 == a2 * 158 + a3 * 55 + a4 * 121 + t4 \div 256
        t6 == a3 * 158 + a4 * 55 + t5 \div 256
        t7 == a4 * 158 + t6 \div 256
        t8 == t7 \div 256
        p == IF w = 4 THEN <<t1 % 256, t2 % 256, t3 % 256, t4 % 256, 0, 0>>
             ELSE <<t1 % 256, t2 % 256, t3 % 256, t4 % 256, t5 % 256, t6 % 256,
                    t7 % 256, t8 % 256, 0, 0>>
    IN  [k \in 1..w |-> Xor8(p[k], p[k + 2])]

\* simple_hash on usize; a usize is the sequence of its bytes, least
\* significant first.  seed + index stays below 2^31 for every call made, so
\* wrapping_add does not wrap; wrapping_mul by 2654435761 = 0x9E3779B1 is the
\* schoolbook product cut at the width of usize; h ^= h >> 16 combines each
\* byte with the byte two places above it
simple_hash(seed, index) ==
    LET n == seed + index
        w == usize_bits \div 8
        a1 == n % 256
        a2 == (n \div 256) % 256
        a3 == (n \div 65536) % 256
        a4 == n \div 16777216
        t1 == a1 * 177
        t2 == a1 * 121 + a2 * 177 + t1 \div 256
        t3 == a1 * 55 + a2 * 121 + a3 * 177 + t2 \div 256
        t4 == a1 * 158 + a2 * 55 + a3 * 121 + a4 * 177 + t3 \div 256
        t5 == a2 * 158 + a3 * 55 + a4 * 121 + t4 \div 256
        t6 == a3 * 158 + a4 * 55 + t5 \div 256
        t7 == a4 * 158 + t6 \div 256
        t8 == t7 \div 256
        p == IF w = 4 THEN <<t1 % 256, t2 % 256, t3 % 256, t4 % 256, 0, 0>>
             ELSE <<t1 % 256, t2 % 256, t3 % 256, t4 % 256, t5 % 256, t6 % 256,
                    t7 % 256, t8 % 256, 0, 0>>
    IN  [k \in 1..w |-> Xor8(p[k], p[k + 2])]

RECURSIVE ModFrom(_, _, _, _)
ModFrom(h, k, r, m) ==
    IF k = 0 THEN r ELSE ModFrom(h, k - 1, (r * 256 + h[k]) % m, m)

\* h % m for a usize h and a small m
Mod(h, m) == ModFrom(h, Len(h), 0, m)

is_multiple_of(h, m) == Mod(h, m) = 0

RECURSIVE AddFrom(_, _, _)
AddFrom(h, k, carry) ==
    IF k > Len(h) THEN <<>>
    ELSE <<(h[k] + carry) % 256>> \o AddFrom(h, k + 1, (h[k] + carry) \div 256)

\* n + h on usize, for a small n; the sum is cut at the width of usize, as
\* a build without overflow checks does
usize_add(n, h) == AddFrom(h, 1, n)

\* variant: no wide tiers, every count is hashed
generate_column_count_hashed(index, seed) ==
    MIN_COLUMNS + Mod(simple_hash(seed, index), MAX_COLUMNS - MIN_COLUMNS + 1)

generate_column_count(index, seed) ==
    IF index < Len(WIDE_COLUMN_TIERS) THEN At(WIDE_COLUMN_TIERS, index)
    ELSE MIN_COLUMNS + Mod(simple_hash(seed, index), MAX_COLUMNS - MIN_COLUMNS + 1)

\* Column { .., ..Default::default() }
ColumnDefault ==
    [source_columns |-> <<>>, source_table |-> None, source_column |-> None]

\* the column pushed at position c of table i
TableColumn(i, c) ==
    IF c = 0
    THEN Merge([name |-> IdText, data_type |-> IntText, is_nullable |-> FALSE,
                is_primary_key |-> TRUE], ColumnDefault)
    ELSE Merge([name |-> At(COLUMN_NAMES,
                            Mod(simple_hash(i * 100 + c, 3), Len(COLUMN_NAMES)))
                         \o Display(c),
                data_type |-> At(DATA_TYPES,
                                 Mod(simple_hash(i * 100 + c, 4), Len(DATA_TYPES))),
                is_nullable |-> is_multiple_of(simple_hash(i * 100 + c, 5), 2),
                is_primary_key |-> FALSE], ColumnDefault)

\* a columns vector of n entries: its length, and its first MaxColumns entries
Columns(n, col(_)) ==
    [len |-> n, first |-> [c \in 1..Min(n, MaxColumns) |-> col(c - 1)]]

generate_tables(config) ==
    [k \in 1..config.tables |->
        LET i == k - 1
            schema == At(SCHEMAS, i % Len(SCHEMAS))
            name == At(TABLE_PREFIXES, Mod(simple_hash(i, 0), Len(TABLE_PREFIXES)))
                    \o At(TABLE_SUFFIXES, Mod(simple_hash(i, 1), Len(TABLE_SUFFIXES)))
                    \o Display(i)
            col(c) == TableColumn(i, c)
            num_columns == generate_column_count(i, TABLE_COLUMN_SEED)
            \* one push for "Id", then one push for each c in 1..num_columns
            pushed == 1 + (IF num_columns > 1 THEN num_columns - 1 ELSE 0)
        IN  [id |-> schema \o <<".">> \o name, name |-> name, schema |-> schema,
             columns |-> Columns(pushed, col)]]

RECURSIVE trim_end_numeric(_)
\* str::trim_end_matches(char::is_numeric)
trim_end_numeric(s) ==
    IF s # <<>> /\ s[Len(s)] \in {"0", "1", "2", "3", "4", "5", "6", "7", "8", "9"}
    THEN trim_end_numeric(SubSeq(s, 1, Len(s) - 1))
    ELSE s

\* variant: the edge points at the name of the referenced table
generate_relationships_to_name(tbls, config) ==
    IF Len(tbls) < 2 THEN <<>>
    ELSE [k \in 1..Min(config.relationships, Len(tbls) * 2) |->
            LET i == k - 1
                from_idx == Mod(simple_hash(i, 10), Len(tbls))
                hashed == Mod(simple_hash(i, 11), Len(tbls))
                to_idx == IF hashed = from_idx THEN (hashed + 1) % Len(tbls) ELSE hashed
                from_table == At(tbls, from_idx)
                to_table == At(tbls, to_idx)
            IN  [id |-> FkText \o from_table.name \o <<"_">> \o to_table.name
                        \o <<"_">> \o Display(i),
                 from |-> from_table.id, to |-> to_table.name,
                 from_column |-> Some(trim_end_numeric(to_table.name) \o IdText),
                 to_column |-> Some(IdText)]]

generate_relationships(tbls, config) ==
    IF Len(tbls) < 2 THEN <<>>
    ELSE [k \in 1..Min(config.relationships, Len(tbls) * 2) |->
            LET i == k - 1
                from_idx == Mod(simple_hash(i, 10), Len(tbls))
                hashed == Mod(simple_hash(i, 11), Len(tbls))
                to_idx == IF hashed = from_idx THEN (hashed + 1) % Len(tbls) ELSE hashed
                from_table == At(tbls, from_idx)
                to_table == At(tbls, to_idx)
            IN  [id |-> FkText \o from_table.name \o <<"_">> \o to_table.name
                        \o <<"_">> \o Display(i),
                 from |-> from_table.id, to |-> to_table.id,
                 from_column |-> Some(trim_end_numeric(to_table.name) \o IdText),
                 to_column |-> Some(IdText)]]

generate_views(tbls, config) ==
    IF tbls = <<>> THEN <<>>
    ELSE [k \in 1..config.views |->
            LET i == k - 1
                schema == At(SCHEMAS, i % Len(SCHEMAS))
                name == VwReportText \o Display(i)
                max_source_tables == Min(3, Len(tbls))
                num_source_tables == 1 + Mod(simple_hash(i, 20), max_source_tables)
                start_idx == Mod(simple_hash(i, 21), Len(tbls))
                source_table_indices ==
                    [o \in 1..num_source_tables |-> (start_idx + o - 1) % Len(tbls)]
                referenced_tables ==
                    [o \in 1..num_source_tables |-> At(tbls, source_table_indices[o]).id]
                col(c) ==
                    LET source_table_idx ==
                            At(source_table_indices,
                               Mod(simple_hash(i * 1000 + c, 22), Len(source_table_indices)))
                        source_table == At(tbls, source_table_idx)
                        source_column ==
                            TableColumn(source_table_idx,
                                        Mod(simple_hash(i * 1000 + c, 23),
                                            source_table.columns.len))
                    IN  [name |-> source_table.name \o <<"_">> \o source_column.name
                                  \o <<"_">> \o Display(c + 1),
                         data_type |-> source_column.data_type,
                         is_nullable |-> source_column.is_nullable,
                         is_primary_key |-> FALSE,
                         source_columns |-> <<[table |-> source_table.id,
                                               column |-> source_column.name]>>,
                         source_table |-> Some(source_table.id),
                         source_column |-> Some(source_column.name)]
            IN  [id |-> schema \o <<".">> \o name, name |-> name, schema |-> schema,
                 columns |-> Columns(generate_column_count(i, VIEW_COLUMN_SEED), col),
                 definition |-> CreateViewText \o name \o AsSelectText
                                \o (IF referenced_tables = <<>> THEN UnknownText
                                    ELSE referenced_tables[1])
                                \o MockViewText,
                 referenced_tables |-> referenced_tables]]

generate_triggers(tbls, config) ==
    IF tbls = <<>> THEN <<>>
    ELSE [k \in 1..config.triggers |->
            LET i == k - 1
                table_idx == Mod(simple_hash(i, 30), Len(tbls))
                table == At(tbls, table_idx)
                name == TrText \o table.name \o <<"_">> \o Display(i)
                fires_on_insert == is_multiple_of(simple_hash(i, 32), 2)
                affected_idx == Mod(usize_add(table_idx + 1, simple_hash(i, 36)), Len(tbls))
            IN  [id |-> table.id \o <<".">> \o name, name |-> name,
                 schema |-> table.schema, table_id |-> table.id,
                 trigger_type |-> At(trigger_types,
                                     Mod(simple_hash(i, 31), Len(trigger_types))),
                 is_disabled |-> is_multiple_of(simple_hash(i, 37), 5),
                 fires_on_insert |-> fires_on_insert,
                 fires_on_update |-> is_multiple_of(simple_hash(i, 33), 2) \/ ~fires_on_insert,
                 fires_on_delete |-> is_multiple_of(simple_hash(i, 34), 3),
                 definition |-> CreateTriggerText \o name \o OnText \o table.id
                                \o MockTriggerText \o Display(i),
                 referenced_tables |-> <<>>,
                 affected_tables |->
                     IF is_multiple_of(simple_hash(i, 35), 2) /\ Len(tbls) > 1
                     THEN <<At(tbls, affected_idx).id>> ELSE <<>>]]

RECURSIVE PushUnique(_, _)
\* for each id in turn: if !list.contains(&id) { list.push(id) }
PushUnique(list, ids) ==
    IF ids = <<>> THEN list
    ELSE PushUnique(IF \E j \in 1..Len(list) : list[j] = Head(ids) THEN list
                    ELSE Append(list, Head(ids)),
                    Tail(ids))

\* the parameters of procedure or function i, seeds s and s + 1
MockParameters(i, num_params, s, output_last) ==
    [q \in 1..num_params |->
        LET p == q - 1
        IN  [name |-> <<"@">> \o At(COLUMN_NAMES,
                                    Mod(simple_hash(i * 10 + p, s), Len(COLUMN_NAMES))),
             data_type |-> At(DATA_TYPES,
                              Mod(simple_hash(i * 10 + p, s + 1), Len(DATA_TYPES))),
             is_output |-> p = num_params - 1 /\ output_last]]

generate_procedures(tbls, config) ==
    [k \in 1..config.procedures |->
        LET i == k - 1
            schema == At(SCHEMAS, i % Len(SCHEMAS))
            prefix == At(proc_prefixes, Mod(simple_hash(i, 40), Len(proc_prefixes)))
            name == prefix \o DataText \o Display(i)
            num_params == 1 + Mod(simple_hash(i, 41), 4)
            read_count == Mod(simple_hash(i, 45), 3)
            write_count == 1 + Mod(simple_hash(i, 47), 2)
            reads == [r \in 1..read_count |->
                        At(tbls, Mod(simple_hash(i * 10 + r - 1, 46), Len(tbls))).id]
            writes == [w \in 1..write_count |->
                         At(tbls, Mod(simple_hash(i * 10 + w - 1, 48), Len(tbls))).id]
            writer == prefix \in {At(proc_prefixes, 1), At(proc_prefixes, 2),
                                  At(proc_prefixes, 3)}
        IN  [id |-> schema \o <<".">> \o name, name |-> name, schema |-> schema,
             procedure_type |-> SqlStoredProcedureText,
             parameters |-> MockParameters(i, num_params, 42,
                                           is_multiple_of(simple_hash(i, 44), 3)),
             definition |-> CreateProcedureText \o name \o MockProcedureText \o Display(i),
             referenced_tables |-> IF tbls = <<>> THEN <<>> ELSE PushUnique(<<>>, reads),
             affected_tables |-> IF tbls = <<>> \/ ~writer THEN <<>>
                                 ELSE PushUnique(<<>>, writes)]]

generate_functions(tbls, config) ==
    [k \in 1..config.functions |->
        LET i == k - 1
            schema == At(SCHEMAS, i % Len(SCHEMAS))
            prefix == At(fn_prefixes, Mod(simple_hash(i, 50), Len(fn_prefixes)))
            name == prefix \o ValueText \o Display(i)
            num_params == 1 + Mod(simple_hash(i, 51), 3)
        IN  [id |-> schema \o <<".">> \o name, name |-> name, schema |-> schema,
             function_type |-> SqlScalarFunctionText,
             parameters |-> MockParameters(i, num_params, 52, FALSE),
             return_type |-> At(return_types, Mod(simple_hash(i, 54), Len(return_types))),
             definition |-> CreateFunctionText \o name \o MockFunctionText \o Display(i),
             referenced_tables |->
                 IF tbls # <<>> /\ is_multiple_of(simple_hash(i, 55), 2)
                 THEN <<At(tbls, Mod(simple_hash(i, 56), Len(tbls))).id>> ELSE <<>>,
             affected_tables |-> <<>>]]

RECURSIVE Flatten(_)
\* the concatenation of a sequence of sequences
Flatten(ss) ==
    IF ss = <<>> THEN <<>>
    ELSE IF Len(ss) = 1 THEN ss[1]
    ELSE LET half == Len(ss) \div 2
         IN  Flatten(SubSeq(ss, 1, half)) \o Flatten(SubSeq(ss, half + 1, Len(ss)))

\* collect_generated_edges: (edge id, source, target) of every generated edge
collect_generated_edges(rels, trigs, procedures, functions) ==
    LET Edge(id, source, target) == [id |-> id, source |-> source, target |-> target]
        OfTrigger(t) ==
            <<Edge(TriggerEdgeText \o t.id, t.table_id, t.id)>>
            \o [j \in 1..Len(SelectSeq(t.referenced_tables, LAMBDA x : x # t.table_id)) |->
                  LET table_id == SelectSeq(t.referenced_tables,
                                            LAMBDA x : x # t.table_id)[j]
                  IN  Edge(TriggerRefEdgeText \o t.id \o <<"-">> \o table_id, t.id, table_id)]
            \o [j \in 1..Len(SelectSeq(t.affected_tables, LAMBDA x : x # t.table_id)) |->
                  LET table_id == SelectSeq(t.affected_tables,
                                            LAMBDA x : x # t.table_id)[j]
                  IN  Edge(TriggerAffectsText \o t.id \o <<"-">> \o table_id, t.id, table_id)]
        OfProcedure(q) ==
            [j \in 1..Len(q.referenced_tables) |->
                Edge(ProcEdgeText \o q.id \o <<"-">> \o q.referenced_tables[j],
                     q.referenced_tables[j], q.id)]
            \o [j \in 1..Len(q.affected_tables) |->
                  Edge(ProcAffectsText \o q.id \o <<"-">> \o q.affected_tables[j],
                       q.id, q.affected_tables[j])]
        OfFunction(f) ==
            [j \in 1..Len(f.referenced_tables) |->
                Edge(FuncEdgeText \o f.id \o <<"-">> \o f.referenced_tables[j],
                     f.referenced_tables[j], f.id)]
    IN  [j \in 1..Len(rels) |-> Edge(rels[j].id, rels[j].from, rels[j].to)]
        \o Flatten([j \in 1..Len(trigs) |-> OfTrigger(trigs[j])])
        \o Flatten([j \in 1..Len(procedures) |-> OfProcedure(procedures[j])])
        \o Flatten([j \in 1..Len(functions) |-> OfFunction(functions[j])])

\* the `size` arguments: the four presets and a name that is none of them
Sizes == {"small", "medium", "large", "stress", "tiny"}

InitMock ==
    /\ usize_bits \in {32, 64}
    /\ mpc = "idle" /\ size = "" /\ frame = NoFrame /\ returned = <<>>
    /\ LoadIdle /\ ConnIdle /\ FmtIdle /\ StoreIdle

\* the command is invoked: MockConfig::from_size(&size)
FromSize ==
    /\ mpc = "idle"
    /\ Len(returned) < MaxCalls
    /\ \E sz \in Sizes :
          /\ size' = sz
          /\ frame' = [NoFrame EXCEPT !.config = from_size(sz)]
    /\ mpc' = "tables"
    /\ UNCHANGED <<usize_bits, returned>>
    /\ UNCHANGED exceptMock

GenerateTables ==
    /\ mpc = "tables"
    /\ frame' = [frame EXCEPT !.tables = generate_tables(frame.config)]
    /\ mpc' = "relationships"
    /\ UNCHANGED <<usize_bits, size, returned>>
    /\ UNCHANGED exceptMock

GenerateRelationships ==
    /\ mpc = "relationships"
    /\ frame' = [frame EXCEPT
                    !.relationships = generate_relationships(frame.tables, frame.config)]
    /\ mpc' = "views"
    /\ UNCHANGED <<usize_bits, size, returned>>
    /\ UNCHANGED exceptMock

GenerateViews ==
    /\ mpc = "views"
    /\ frame' = [frame EXCEPT !.views = generate_views(frame.tables, frame.config)]
    /\ mpc' = "triggers"
    /\ UNCHANGED <<usize_bits, size, returned>>
    /\ UNCHANGED exceptMock

GenerateTriggers ==
    /\ mpc = "triggers"
    /\ frame' = [frame EXCEPT !.triggers = generate_triggers(frame.tables, frame.config)]
    /\ mpc' = "procedures"
    /\ UNCHANGED <<usize_bits, size, returned>>
    /\ UNCHANGED exceptMock

GenerateProcedures ==
    /\ mpc = "procedures"
    /\ frame' = [frame EXCEPT
                    !.stored_procedures = generate_procedures(frame.tables, frame.config)]
    /\ mpc' = "functions"
    /\ UNCHANGED <<usize_bits, size, returned>>
    /\ UNCHANGED exceptMock

GenerateFunctions ==
    /\ mpc = "functions"
    /\ frame' = [frame EXCEPT
                    !.scalar_functions = generate_functions(frame.tables, frame.config)]
    /\ mpc' = "return"
    /\ UNCHANGED <<usize_bits, size, returned>>
    /\ UNCHANGED exceptMock

\* Ok(SchemaGraph { .. })
ReturnSchemaGraph ==
    /\ mpc = "return"
    /\ returned' = Append(returned,
                          [size |-> size,
                           graph |-> [tables |-> frame.tables, views |-> frame.views,
                                      relationships |-> frame.relationships,
                                      triggers |-> frame.triggers,
                                      stored_procedures |-> frame.stored_procedures,
                                      scalar_functions |-> frame.scalar_functions]])
    /\ mpc' = "idle" /\ size' = "" /\ frame' = NoFrame
    /\ UNCHANGED usize_bits
    /\ UNCHANGED exceptMock

NextMock ==
    \/ FromSize
    \/ GenerateTables
    \/ GenerateRelationships
    \/ GenerateViews
    \/ GenerateTriggers
    \/ GenerateProcedures
    \/ GenerateFunctions
    \/ ReturnSchemaGraph

SpecMock == InitMock /\ [][NextMock]_vars

\* resolve_instance_port has returned
SsrpReturned == ssrp_result.kind # "none"

\* the addresses of the list that answer with a valid port
ValidAddrs == {i \in 1..Len(net) : Outcome(net[i], instance) = "Ok"}

\* C27: resolve_instance_port contacts the browser addresses in list order,
\* each at most once; no failure on an address ends the loop early; when some
\* address answers with a valid port the call returns the port of the first
\* such address and contacts none after it.
C27_AddressesInOrderFirstValidWins ==
    /\ Len(attempts) <= Len(net)
    /\ \A i \in 1..Len(attempts) : attempts[i] = Outcome(net[i], instance)
    /\ (cpc = "ssrp_try" /\ addr_idx <= Len(net)) =>
          /\ addr_idx = Len(attempts) + 1
          /\ ValidAddrs \cap 1..Len(attempts) = {}
    /\ (SsrpReturned /\ ValidAddrs # {}) =>
          LET first == CHOOSE i \in ValidAddrs : \A j \in ValidAddrs : i <= j
          IN  /\ ssrp_result = SsrpOk(parse_ssrp_response(net[first].data, instance).port)
              /\ Len(attempts) = first
    /\ (SsrpReturned /\ ValidAddrs = {}) =>
          /\ ssrp_result.kind # "Ok"
          /\ Len(attempts) = Len(net)

\* the first address timed out and the second one answered with a valid port
C27_Witness ==
    /\ SsrpReturned /\ Len(net) = 2
    /\ net[1].io = "timeout"
    /\ attempts = <<"Timeout", "Ok">>
    /\ ssrp_result = SsrpOk(7)

\* the first of two addresses answered with a valid port: the second was not
\* contacted
C27_SecondNotContacted ==
    /\ SsrpReturned /\ Len(net) = 2
    /\ attempts = <<"Ok">>
    /\ Outcome(net[2], instance) = "Ok"

\* the position of a stage in load_schema_from_connection
StageRank(p) ==
    CASE p = "connect" -> 1 [] p = "tables" -> 2 [] p = "views" -> 3
      [] p = "sources" -> 4 [] p = "lookup" -> 5 [] p = "view_refs" -> 6
      [] p = "fks" -> 7 [] p = "triggers" -> 8 [] p = "procs" -> 9
      [] p = "funcs" -> 10 [] p = "return" -> 11 [] p = "done" -> 12

\* the identity of the objects of a list: what the index is built from
Identities(objs) == [i \in 1..Len(objs) |-> <<objs[i].id, objs[i].name>>]

\* the non-empty reference lists of a list of objects, each with its place
ReadLists(objs) ==
    {<<i, objs[i].referenced_tables>> :
        i \in {j \in 1..Len(objs) : objs[j].referenced_tables # <<>>}}

\* C28: the name index is built exactly once per load, from the complete
\* tables and views lists and before any reference is extracted; it is not
\* modified afterwards, and the references of views, triggers, stored
\* procedures and scalar functions are all extracted after it was built.
C28_IndexBuiltOnceBeforeReferences ==
    [][ /\ StageRank(pc') >= StageRank(pc)
        /\ (pc = "lookup" /\ pc' # "lookup") =>
              /\ pc' = "view_refs"
              /\ issued = <<"tables", "views", "sources">>
              /\ name_to_id = <<>>
              /\ name_to_id' = build_name_lookup(tables, views)
              /\ ReadLists(views) = {}
              /\ triggers = <<>> /\ stored_procedures = <<>> /\ scalar_functions = <<>>
        /\ ~(pc = "lookup" /\ pc' # "lookup") => name_to_id' = name_to_id
        /\ tables' # tables => pc = "tables"
        /\ Identities(views') # Identities(views) => pc = "views"
        /\ ReadLists(views') # ReadLists(views) => pc = "view_refs"
        /\ triggers' # triggers => pc = "triggers"
        /\ stored_procedures' # stored_procedures => pc = "procs"
        /\ scalar_functions' # scalar_functions => pc = "funcs"
      ]_vars

\* a load that returned a graph in which a view, a trigger, a procedure and a
\* function each hold a reference resolved through the index
C28_Witness ==
    /\ pc = "done" /\ result.kind = "ok"
    /\ name_to_id # <<>> /\ name_to_id = build_name_lookup(tables, views)
    /\ \E i \in 1..Len(views) : views[i].referenced_tables # <<>>
    /\ \E i \in 1..Len(triggers) : triggers[i].referenced_tables # <<>>
    /\ \E i \in 1..Len(stored_procedures) : stored_procedures[i].referenced_tables # <<>>

\* the objects the index is built from, in the order of their inserts
Indexed == tables \o views

\* the objects that share the lowercased short name of the i-th one
SameShortName(i) ==
    {j \in 1..Len(Indexed) : to_lowercase(Indexed[j].name) = to_lowercase(Indexed[i].name)}

\* the short name of every object maps to the id of the last object that has
\* this short name
ShortNameLastWins ==
    \A i \in 1..Len(Indexed) :
        LET last == CHOOSE j \in SameShortName(i) : \A k \in SameShortName(i) : k <= j
        IN  /\ to_lowercase(Indexed[i].name) \in DOMAIN name_to_id
            /\ name_to_id[to_lowercase(Indexed[i].name)] = Indexed[last].id

\* the schema-qualified key of every object maps to the id of that object
QualifiedKeyOwnId ==
    \A i \in 1..Len(Indexed) :
        /\ to_lowercase(Indexed[i].id) \in DOMAIN name_to_id
        /\ name_to_id[to_lowercase(Indexed[i].id)] = Indexed[i].id

\* a load fails only where a query failed
CollisionNotReported == result.kind = "err" => failed.query # "none"

\* C29: when several objects have the same lowercased short name, the index
\* maps the short name to the id of the one inserted last (tables in list
\* order, then views), the collision is not reported, and the
\* schema-qualified key of every object maps to that object's own id.
C29_LastInsertWins ==
    /\ CollisionNotReported
    /\ name_to_id # <<>> => ShortNameLastWins /\ QualifiedKeyOwnId

\* no two objects have ids that differ only in the case of their letters
IdsDistinctByCase ==
    \A i, j \in 1..Len(Indexed) :
        to_lowercase(Indexed[i].id) = to_lowercase(Indexed[j].id)
            => Indexed[i].id = Indexed[j].id

\* what holds of the index: the short-name part always, the qualified-key
\* part when no two ids differ only in case
C29_LastInsertWinsIdsDistinctByCase ==
    /\ CollisionNotReported
    /\ name_to_id # <<>> =>
          /\ ShortNameLastWins
          /\ IdsDistinctByCase => QualifiedKeyOwnId

\* a view has overridden the short name of a table with another id
C29_ViewOverridesTable ==
    /\ name_to_id # <<>>
    /\ \E i \in 1..Len(tables), j \in 1..Len(views) :
          /\ to_lowercase(tables[i].name) = to_lowercase(views[j].name)
          /\ to_lowercase(tables[i].id) # to_lowercase(views[j].id)
          /\ name_to_id[to_lowercase(tables[i].name)] = views[j].id

-----------------------------------------------------------------------------
(* Settings store: state.rs *)

\* ConnectionHistory { server, database, username, last_used }
ConnectionHistory(server_, database_, username_, last_used_) ==
    [server |-> server_, database |-> database_, username |-> username_,
     last_used |-> last_used_]

\* serde, rename_all = "camelCase": the JSON object of a ConnectionHistory
ConnectionJson(c) ==
    [server |-> c.server, database |-> c.database, username |-> c.username,
     lastUsed |-> c.last_used]

\* serde_json::to_string_pretty(&settings): theme and schemaFilter are
\* skipped when they are None
to_string_pretty(st) ==
    LET base == [recentConnections |->
                    [i \in 1..Len(st.recent_connections) |->
                        ConnectionJson(st.recent_connections[i])]]
        with_theme == IF st.theme = None THEN base
                      ELSE Merge(base, [theme |-> st.theme[1]])
    IN  IF st.schema_filter = None THEN with_theme
        ELSE Merge(with_theme, [schemaFilter |-> st.schema_filter[1]])

\* serde_json::from_str::<AppSettings>: every field has serde(default)
from_str(content) ==
    [recent_connections |->
        IF "recentConnections" \in DOMAIN content
        THEN [i \in 1..Len(content.recentConnections) |->
                LET j == content.recentConnections[i]
                IN  ConnectionHistory(j.server, j.database, j.username, j.lastUsed)]
        ELSE <<>>,
     theme |-> IF "theme" \in DOMAIN content THEN Some(content.theme) ELSE None,
     schema_filter |-> IF "schemaFilter" \in DOMAIN content
                       THEN Some(content.schemaFilter) ELSE None]

\* AppState::read_settings(..).unwrap_or_default()
read_settings(content) == IF content = <<>> THEN DefaultSettings ELSE from_str(content)

\* Vec::retain(|c| !(c.server == server && c.database == database))
retain_others(list, server_, database_) ==
    SelectSeq(list, LAMBDA c : ~(c.server = server_ /\ c.database = database_))

\* Vec::truncate
truncate(list, n) == IF Len(list) > n THEN SubSeq(list, 1, n) ELSE list

\* variant: the entry with the same server and database is not removed first
add_connection_keeps_old(list, connection) ==
    truncate(<<connection>> \o list, 10)

\* the body of add_connection on recent_connections
add_connection(list, connection) ==
    truncate(<<connection>> \o retain_others(list, connection.server, connection.database),
             10)

\* the body of remove_connection on recent_connections
remove_connection(list, server_, database_) == retain_others(list, server_, database_)

\* the body of update_settings on the settings
update_settings(st, update) ==
    [st EXCEPT !.theme = IF update.theme # None THEN update.theme ELSE @,
               !.schema_filter = IF update.schema_filter # None
                                 THEN update.schema_filter ELSE @]

\* the history a run of the program leaves after k connections were saved,
\* the k-th last
Saved(k) ==
    [i \in 1..k |->
        LET n == k + 1 - i
        IN  ConnectionHistory(<<"s", n>>, "d1", "u", n)]

\* the connections handed to add_connection and remove_connection: the oldest
\* saved one, its server with another database, and a server never saved
CallConnections ==
    {ConnectionHistory(<<"s", 1>>, "d1", "v", 20),
     ConnectionHistory(<<"s", 1>>, "d2", "v", 20),
     ConnectionHistory(<<"s", 11>>, "d1", "v", 20)}

Updates ==
    {[theme |-> Some("dark"), schema_filter |-> None],
     [theme |-> None, schema_filter |-> Some("dbo")]}

Calls ==
    {[op |-> "add", connection |-> c] : c \in CallConnections}
    \cup {[op |-> "remove", server |-> c.server, database |-> c.database] :
             c \in CallConnections}
    \cup {[op |-> "update", update |-> u] : u \in Updates}

\* AppState::new on a directory without settings.json, or with the file an
\* earlier run of the program wrote
InitStore ==
    /\ \E k \in {0, 10} :
          /\ settings = [DefaultSettings EXCEPT !.recent_connections = Saved(k)]
          /\ file = IF k = 0 THEN <<>> ELSE to_string_pretty(settings)
    /\ lock = 0
    /\ tpc = [t \in Threads |-> "idle"] /\ call = [t \in Threads |-> NoCall]
    /\ started = 0 /\ last_op = NoCall /\ overtaken = FALSE
    /\ LoadIdle /\ ConnIdle /\ FmtIdle /\ MockIdle

\* a thread enters add_connection, remove_connection or update_settings and
\* waits for settings.lock()
Invoke(t) ==
    /\ tpc[t] = "idle" /\ started < MaxOps
    /\ \E c \in Calls : call' = [call EXCEPT ![t] = c]
    /\ tpc' = [tpc EXCEPT ![t] = "lock"]
    /\ started' = started + 1
    /\ UNCHANGED <<settings, file, lock, last_op, overtaken>>
    /\ UNCHANGED exceptStore

\* settings.lock(), the mutation, and drop(settings)
Mutate(t) ==
    /\ tpc[t] = "lock" /\ lock = 0
    /\ LET c == call[t]
           list == settings.recent_connections
       IN  /\ settings' =
                CASE c.op = "add" ->
                         [settings EXCEPT !.recent_connections =
                                             add_connection(list, c.connection)]
                  [] c.op = "remove" ->
                         [settings EXCEPT !.recent_connections =
                                             remove_connection(list, c.server, c.database)]
                  [] c.op = "update" -> update_settings(settings, c.update)
           /\ last_op' = Merge([before |-> settings], c)
           \* update_settings: let updated = settings.clone()
           /\ call' = [call EXCEPT ![t] = Merge([updated |-> settings'], c)]
    /\ tpc' = [tpc EXCEPT ![t] = "save"]
    /\ UNCHANGED <<file, lock, started, overtaken>>
    /\ UNCHANGED exceptStore

\* save_settings: self.settings.lock()
SaveLock(t) ==
    /\ tpc[t] = "save" /\ lock = 0
    /\ lock' = t
    /\ tpc' = [tpc EXCEPT ![t] = "write"]
    /\ UNCHANGED <<settings, file, call, started, last_op, overtaken>>
    /\ UNCHANGED exceptStore

\* variant: the call writes the copy of the settings it made when it mutated
SaveWrite_own_copy(t) ==
    /\ tpc[t] = "write" /\ lock = t
    /\ file' = to_string_pretty(call[t].updated)
    /\ lock' = 0
    /\ tpc' = [tpc EXCEPT ![t] = "idle"]
    /\ call' = [call EXCEPT ![t] = NoCall]
    /\ overtaken' = (overtaken \/ call[t].updated # settings)
    /\ UNCHANGED <<settings, started, last_op>>
    /\ UNCHANGED exceptStore

\* save_settings: to_string_pretty(&*settings), fs::write, and the guard is
\* dropped on return; the call returns
SaveWrite(t) ==
    /\ tpc[t] = "write" /\ lock = t
    /\ file' = to_string_pretty(settings)
    /\ lock' = 0
    /\ tpc' = [tpc EXCEPT ![t] = "idle"]
    /\ call' = [call EXCEPT ![t] = NoCall]
    /\ overtaken' = (overtaken \/ call[t].updated # settings)
    /\ UNCHANGED <<settings, started, last_op>>
    /\ UNCHANGED exceptStore

NextStore ==
    \E t \in Threads :
       \/ Invoke(t)
       \/ Mutate(t)
       \/ SaveLock(t)
       \/ SaveWrite(t)

SpecStore == InitStore /\ [][NextStore]_vars

\* the (server, database) pairs of a history
Pairs(list) == {<<list[i].server, list[i].database>> : i \in 1..Len(list)}

NoDuplicatePair(list) ==
    \A i, j \in 1..Len(list) :
        (list[i].server = list[j].server /\ list[i].database = list[j].database) => i = j

\* C26: after any sequence of add_connection and remove_connection calls,
\* recent_connections holds at most 10 entries and no two of them have the
\* same (server, database) pair; right after add_connection(c) the entry c is
\* at index 0; update_settings leaves recent_connections as it was.
C26_HistoryCappedUniqueNewestFirst ==
    LET list == settings.recent_connections
    IN  /\ Len(list) <= 10
        /\ NoDuplicatePair(list)
        /\ last_op.op = "add" =>
              /\ list # <<>> /\ list[1] = last_op.connection
        /\ last_op.op = "remove" =>
              /\ <<last_op.server, last_op.database>> \notin Pairs(list)
        /\ last_op.op = "update" =>
              list = last_op.before.recent_connections

\* a connection with a new pair was added to a full history (the oldest entry
\* was dropped), and one with a saved pair was added (the old entry was removed)
C26_Witness ==
    /\ last_op.op = "add"
    /\ Len(last_op.before.recent_connections) = 10
    /\ Len(settings.recent_connections) = 10
    /\ <<last_op.connection.server, last_op.connection.database>>
          \notin Pairs(last_op.before.recent_connections)
    /\ settings.recent_connections[10] = last_op.before.recent_connections[9]

C26_ReplacedReached ==
    /\ last_op.op = "add"
    /\ <<last_op.connection.server, last_op.connection.database>>
          \in Pairs(last_op.before.recent_connections)
    /\ last_op.connection \notin
          {last_op.before.recent_connections[i] :
              i \in 1..Len(last_op.before.recent_connections)}

\* every call has returned
Quiescent == lock = 0 /\ \A t \in Threads : tpc[t] = "idle"

\* C30: under any interleaving of add_connection, remove_connection and
\* update_settings calls whose writes succeed, once every call has returned
\* settings.json holds the in-memory settings; and a call only writes while
\* it holds the lock, after its own mutation.
C30_FileEqualsMemoryAtQuiescence ==
    /\ Quiescent => read_settings(file) = settings
    /\ \A t \in Threads :
          /\ tpc[t] = "write" <=> lock = t
          /\ tpc[t] \in {"save", "write"} => "updated" \in DOMAIN call[t]

\* two calls overlapped: one mutated, another mutated after it, and the first
\* wrote last or later; all calls have returned and the file was written
C30_Witness ==
    /\ Quiescent /\ overtaken /\ started >= 2
    /\ file # <<>> /\ settings # DefaultSettings

\* ---------------------------------------------------------------------------
\* Mock graph generator (SpecMock)

EdgesOf(g) ==
    collect_generated_edges(g.relationships, g.triggers, g.stored_procedures,
                            g.scalar_functions)

ObjectIds(g) ==
    Ids(g.tables) \cup Ids(g.views) \cup Ids(g.triggers)
    \cup Ids(g.stored_procedures) \cup Ids(g.scalar_functions)

\* every id of every list of `field` over the objects is a table id
ListsWithin(objs, field, ids) ==
    \A j \in 1..Len(objs) : \A k \in 1..Len(objs[j][field]) : objs[j][field][k] \in ids

EdgesSound(g) ==
    LET edges == EdgesOf(g)
        objects == ObjectIds(g)
        table_ids == Ids(g.tables)
    IN  /\ Cardinality({edges[j].id : j \in 1..Len(edges)}) = Len(edges)
        /\ \A j \in 1..Len(edges) :
              edges[j].source \in objects /\ edges[j].target \in objects
        /\ \A j \in 1..Len(g.relationships) :
              g.relationships[j].from \in table_ids /\ g.relationships[j].to \in table_ids
        /\ \A j \in 1..Len(g.triggers) : g.triggers[j].table_id \in table_ids
        /\ ListsWithin(g.triggers, "referenced_tables", table_ids)
        /\ ListsWithin(g.triggers, "affected_tables", table_ids)
        /\ ListsWithin(g.stored_procedures, "referenced_tables", table_ids)
        /\ ListsWithin(g.stored_procedures, "affected_tables", table_ids)
        /\ ListsWithin(g.scalar_functions, "referenced_tables", table_ids)

\* C24: in every returned mock graph the ids of the generated edges are
\* pairwise distinct, both endpoints of every edge are ids of generated
\* objects, and every relationship end, trigger table and referenced or
\* affected id is the id of a generated table. Each graph is examined in the
\* state in which load_schema_mock has just returned it.
C24_EdgesUniqueEndpointsExist ==
    (mpc = "idle" /\ returned # <<>>) => EdgesSound(returned[Len(returned)].graph)

\* a stress graph was returned: 3000 relationships, 300 trigger edges, and
\* edges of every other kind
C24_Witness ==
    \E k \in 1..Len(returned) :
       LET g == returned[k].graph
       IN  /\ returned[k].size = "stress"
           /\ Len(g.relationships) = 3000 /\ Len(g.triggers) = 300
           /\ \E j \in 1..Len(g.triggers) : g.triggers[j].affected_tables # <<>>
           /\ \E j \in 1..Len(g.stored_procedures) :
                 /\ g.stored_procedures[j].referenced_tables # <<>>
                 /\ g.stored_procedures[j].affected_tables # <<>>
           /\ \E j \in 1..Len(g.scalar_functions) :
                 g.scalar_functions[j].referenced_tables # <<>>
           /\ Len(EdgesOf(g)) > 3300

ColumnCounts(objs) == [j \in 1..Len(objs) |-> objs[j].columns.len]

\* the first entries of `counts` are 100, 150, 200, 250, 300 and every entry
\* lies in 5..300
TieredAndBounded(counts) ==
    /\ \A j \in 1..Len(counts) :
          /\ j <= 5 => counts[j] = <<100, 150, 200, 250, 300>>[j]
          /\ counts[j] >= 5 /\ counts[j] <= 300

\* C25: in every returned mock graph the i-th table and the i-th view have
\* WIDE_COLUMN_TIERS[i] columns for i < 5, and every table and view has between
\* 5 and 300 columns
C25_ColumnCounts ==
    \A k \in 1..Len(returned) :
       /\ TieredAndBounded(ColumnCounts(returned[k].graph.tables))
       /\ TieredAndBounded(ColumnCounts(returned[k].graph.views))

\* a graph with at least five views was returned, and some table and some
\* view past the tiers has a hashed count
C25_Witness ==
    \E k \in 1..Len(returned) :
       LET g == returned[k].graph
       IN  /\ Len(g.tables) >= 100 /\ Len(g.views) >= 20
           /\ g.tables[5].columns.len = 300 /\ g.views[5].columns.len = 300
           /\ g.tables[6].columns.len \notin {100, 150, 200, 250, 300}
           /\ g.views[6].columns.len \notin {100, 150, 200, 250, 300}

=============================================================================
